---- MODULE Spec2Model ----
(***************************************************************************)
(* Model of the tree-sitter external scanner for RPM spec files            *)
(* (src/src/scanner.c).  The scanner state is the two-flag lookahead       *)
(* cache; the lexer is the engine's TSLexer cursor over the input text.    *)
(* A character is a string of length one; the lookahead at end of input    *)
(* is the empty string.                                                    *)
(***************************************************************************)
EXTENDS Integers, Sequences, FiniteSets, TLC

VARIABLES
    text,     \* the document the engine is lexing
    cursor,   \* engine position (1-based) where the next scan starts
    scanner,  \* struct Scanner: the lookahead cache
    saved,    \* the engine's copy of the last serialized scanner state
    last,     \* observation of the last API call and its outcome
    la        \* loop state of a section lookahead that is being stepped

vars == <<text, cursor, scanner, saved, last, la>>

(***************************************************************************)
(* Constants of the program                                                *)
(***************************************************************************)
MAX_LOOKAHEAD_LINES == 2000

\* sizeof(id_buf) in conditional_body_has_section
LA_BUF_SIZE == 32

\* sizeof(keyword) in rpmspec_scan and sizeof(id_buf) in scan_macro
ID_BUF_SIZE == 64

(***************************************************************************)
(* Character classes                                                       *)
(***************************************************************************)
Lower == {"a","b","c","d","e","f","g","h","i","j","k","l","m",
          "n","o","p","q","r","s","t","u","v","w","x","y","z"}

Upper == {"A","B","C","D","E","F","G","H","I","J","K","L","M",
          "N","O","P","Q","R","S","T","U","V","W","X","Y","Z"}

isdigit(c) == c \in {"0","1","2","3","4","5","6","7","8","9"}

\* isspace() of the C locale: space, \t, \n, \v, \f, \r (\v is not
\* expressible as a TLA+ string escape and is left out of the inputs)
isspace(c) == c \in {" ", "\t", "\n", "\f", "\r"}

is_identifier_start(c) == c \in Lower \/ c \in Upper \/ c = "_"

is_macro_start(c) ==
    \/ c \in {"%", "{", "(", "[", "!", "?", "*", "#"}
    \/ is_identifier_start(c)
    \/ isdigit(c)

is_identifier_char(c) == is_identifier_start(c) \/ isdigit(c)

is_horizontal_space(c) == c = " " \/ c = "\t"

Min(a, b) == IF a < b THEN a ELSE b

(***************************************************************************)
(* Keyword tables                                                          *)
(***************************************************************************)
KEYWORDS ==
    {"if", "elif", "else", "endif", "ifarch", "ifnarch", "elifarch",
     "ifos", "ifnos", "elifos",
     "define", "global", "undefine",
     "setup", "autosetup", "patch", "autopatch",
     "echo", "error", "expand", "getenv", "getncpus", "len", "lower",
     "macrobody", "quote", "reverse", "shescape", "shrink", "upper",
     "verbose", "warn",
     "basename", "dirname", "exists", "load", "suffix", "uncompress",
     "url2path", "u2p",
     "gsub", "sub", "rep",
     "dnl", "dump", "rpmversion", "trace",
     "expr", "lua"}

SUBSECTION_KEYWORDS ==
    {"package", "description", "sourcelist", "patchlist", "changelog"}

SCRIPTLET_KEYWORDS ==
    {"prep", "generate_buildrequires", "conf", "build", "install", "check",
     "clean",
     "pre", "post", "preun", "postun", "pretrans", "posttrans",
     "preuntrans", "postuntrans",
     "triggerin", "triggerun", "triggerpostun", "triggerprein",
     "filetriggerin", "filetriggerun", "filetriggerpostun",
     "transfiletriggerin", "transfiletriggerun", "transfiletriggerpostun"}

FILES_KEYWORDS ==
    {"defattr", "attr", "config", "doc", "docdir", "dir", "license",
     "verify", "ghost", "exclude", "artifact", "missingok", "readme"}

(***************************************************************************)
(* String helpers.  An identifier buffer is the pair (id, len): id is the  *)
(* NUL-terminated content of the char array, len the length the caller     *)
(* tracked, which exceeds Len(id) when the identifier was truncated.       *)
(***************************************************************************)
\* strncmp(a, b, n) == 0 on NUL-terminated strings
strncmp_eq(a, b, n) ==
    SubSeq(a, 1, Min(n, Len(a))) = SubSeq(b, 1, Min(n, Len(b)))

strequal(literal, id, len) ==
    len = Len(literal) /\ strncmp_eq(id, literal, Len(literal))

matches_keyword_array(str, len, keywords) ==
    \E kw \in keywords : len = Len(kw) /\ strncmp_eq(str, kw, len)

is_scriptlet_keyword(str, len) ==
    matches_keyword_array(str, len, SCRIPTLET_KEYWORDS)

is_subsection_keyword(str, len) ==
    matches_keyword_array(str, len, SUBSECTION_KEYWORDS)

is_section_keyword(str, len) ==
    \/ is_subsection_keyword(str, len)
    \/ is_scriptlet_keyword(str, len)
    \/ strequal("files", str, len)

\* Faulty variant of is_keyword: the section keywords left out
IsKeywordNoSections(str, len) == matches_keyword_array(str, len, KEYWORDS)

\* Faulty variant of is_keyword: the files directives tested as well
IsKeywordWithFilesDirectives(str, len) ==
    \/ matches_keyword_array(str, len, KEYWORDS)
    \/ matches_keyword_array(str, len, SUBSECTION_KEYWORDS)
    \/ matches_keyword_array(str, len, SCRIPTLET_KEYWORDS)
    \/ matches_keyword_array(str, len, FILES_KEYWORDS)
    \/ strequal("files", str, len)

is_keyword(str, len) ==
    \/ matches_keyword_array(str, len, KEYWORDS)
    \/ matches_keyword_array(str, len, SUBSECTION_KEYWORDS)
    \/ matches_keyword_array(str, len, SCRIPTLET_KEYWORDS)
    \/ strequal("files", str, len)

is_files_keyword(str, len) == matches_keyword_array(str, len, FILES_KEYWORDS)

(***************************************************************************)
(* The engine's lexer (TSLexer) as the scanner uses it.  pos is the        *)
(* cursor, mark the committed token boundary (marked: mark_end was called  *)
(* in this invocation), start the token start (moved by skipping           *)
(* advances), result_symbol the kind stored by the scanner.                *)
(***************************************************************************)
NoSymbol == "NONE"

NewLexer(p) ==
    [pos |-> p, mark |-> p, marked |-> FALSE, start |-> p,
     result_symbol |-> NoSymbol]

eof(lx) == lx.pos > Len(text)

lookahead(lx) == IF eof(lx) THEN "" ELSE SubSeq(text, lx.pos, lx.pos)

\* lexer->advance(lexer, false)
advance(lx) == IF eof(lx) THEN lx ELSE [lx EXCEPT !.pos = lx.pos + 1]

\* lexer->advance(lexer, true)
advance_skip(lx) ==
    IF eof(lx) THEN [lx EXCEPT !.start = lx.pos]
    ELSE [lx EXCEPT !.pos = lx.pos + 1, !.start = lx.pos + 1]

mark_end(lx) == [lx EXCEPT !.mark = lx.pos, !.marked = TRUE]

\* The end of the token the engine takes when the scan returns true
TokenEnd(lx) == IF lx.marked THEN lx.mark ELSE lx.pos

\* Number of identifier characters at positions p, p+1, ...: the number of
\* iterations of a loop  while (is_identifier_char(lookahead)) advance
IdentRun(p) ==
    CHOOSE n \in 0..(Len(text) + 1) :
        /\ \A i \in p..(p + n - 1) :
              i <= Len(text) /\ is_identifier_char(SubSeq(text, i, i))
        /\ \/ p + n > Len(text)
           \/ ~is_identifier_char(SubSeq(text, p + n, p + n))

(***************************************************************************)
(* Section lookahead: conditional_body_has_section.  LAStart is the state  *)
(* of its locals on entry, LookaheadIter one iteration of its while loop   *)
(* (done/result: the function has returned result).                        *)
(***************************************************************************)
LAStart(lx) ==
    [lx |-> lx, nesting |-> 1, lines_scanned |-> 0, at_line_start |-> TRUE,
     done |-> FALSE, result |-> FALSE]

IsCondOpener(id, len) ==
    \/ strequal("if", id, len)
    \/ strequal("ifarch", id, len)
    \/ strequal("ifnarch", id, len)
    \/ strequal("ifos", id, len)
    \/ strequal("ifnos", id, len)

\* Faulty variant of LookaheadKeyword: every %endif ends the scan, the
\* nesting of conditionals ignored
LookaheadKeywordFlat(st, lx2, id_buf, id_len) ==
    IF id_len > 0 /\ strequal("endif", id_buf, id_len)
    THEN [st EXCEPT !.lx = lx2, !.nesting = st.nesting - 1,
                    !.done = TRUE, !.result = FALSE]
    ELSE IF id_len > 0 /\ IsCondOpener(id_buf, id_len)
    THEN [st EXCEPT !.lx = lx2, !.nesting = st.nesting + 1,
                    !.at_line_start = FALSE]
    ELSE IF id_len > 0 /\ is_section_keyword(id_buf, id_len)
    THEN [st EXCEPT !.lx = lx2, !.done = TRUE, !.result = TRUE]
    ELSE [st EXCEPT !.lx = lx2, !.at_line_start = FALSE]

\* The checks made once the identifier after a line-start '%' is buffered;
\* lx2 is the lexer past the buffered characters
LookaheadKeyword(st, lx2, id_buf, id_len) ==
    IF id_len > 0 /\ strequal("endif", id_buf, id_len)
    THEN IF st.nesting - 1 = 0
         THEN [st EXCEPT !.lx = lx2, !.nesting = 0,
                         !.done = TRUE, !.result = FALSE]
         ELSE [st EXCEPT !.lx = lx2, !.nesting = st.nesting - 1,
                         !.at_line_start = FALSE]
    ELSE IF id_len > 0 /\ IsCondOpener(id_buf, id_len)
    THEN [st EXCEPT !.lx = lx2, !.nesting = st.nesting + 1,
                    !.at_line_start = FALSE]
    ELSE IF id_len > 0 /\ is_section_keyword(id_buf, id_len)
    THEN [st EXCEPT !.lx = lx2, !.done = TRUE, !.result = TRUE]
    ELSE [st EXCEPT !.lx = lx2, !.at_line_start = FALSE]

\* The buffering loop: at most sizeof(id_buf) - 1 characters are taken
LookaheadIdentifier(st, lx1, id_len) ==
    LookaheadKeyword(st, [lx1 EXCEPT !.pos = lx1.pos + id_len],
                     SubSeq(text, lx1.pos, lx1.pos + id_len - 1), id_len)

\* The branch taken at a '%' seen with at_line_start set; lx1 is the lexer
\* past the '%'
LookaheadPercent(st, lx1) ==
    LookaheadIdentifier(st, lx1, Min(IdentRun(lx1.pos), LA_BUF_SIZE - 1))

\* The branch taken at a line terminator c; lx1 is the lexer past it
LookaheadNewline(st, c, lx1) ==
    [st EXCEPT !.lx = IF c = "\r" /\ lookahead(lx1) = "\n"
                      THEN advance(lx1) ELSE lx1,
               !.at_line_start = TRUE,
               !.lines_scanned = st.lines_scanned + 1]

\* The loop body for the lookahead character c
LookaheadChar(st, c) ==
    IF c = "\r" \/ c = "\n"
    THEN LookaheadNewline(st, c, advance(st.lx))
    ELSE IF c = " " \/ c = "\t"
    THEN [st EXCEPT !.lx = advance(st.lx)]
    ELSE IF c = "%" /\ st.at_line_start
    THEN LookaheadPercent(st, advance(st.lx))
    ELSE [st EXCEPT !.lx = advance(st.lx), !.at_line_start = FALSE]

\* Faulty variant of LookaheadIter: the loop condition without the line cap
LookaheadIterNoCap(st) ==
    IF eof(st.lx)
    THEN [st EXCEPT !.done = TRUE, !.result = FALSE]
    ELSE LookaheadChar(st, lookahead(st.lx))

LookaheadIter(st) ==
    IF eof(st.lx) \/ ~(st.lines_scanned < MAX_LOOKAHEAD_LINES)
    THEN [st EXCEPT !.done = TRUE, !.result = FALSE]
    ELSE LookaheadChar(st, lookahead(st.lx))

RECURSIVE LARun(_)
LARun(st) == IF st.done THEN st ELSE LARun(LookaheadIter(st))

LAResult(fin) == [result |-> fin.result, lx |-> fin.lx]

\* returns the boolean and the lexer as the call leaves it
conditional_body_has_section(lx) == LAResult(LARun(LAStart(lx)))

(***************************************************************************)
(* Content scanners.  Each LET-step below is one iteration of the while    *)
(* loop; the operators return [ret, lx].                                   *)
(***************************************************************************)
\* while (isdigit(lexer->lookahead)) advance(lexer);
RECURSIVE SkipDigits(_)
SkipDigits(lx) ==
    IF isdigit(lookahead(lx)) THEN SkipDigits(advance(lx)) ELSE lx

\* while (is_identifier_char(lexer->lookahead)) advance(lexer);
RECURSIVE SkipIdentifier(_)
SkipIdentifier(lx) ==
    IF is_identifier_char(lookahead(lx)) THEN SkipIdentifier(advance(lx))
    ELSE lx

RECURSIVE ExpandLoop(_, _, _)
\* Faulty variant of ExpandPercent: the scan reports content whenever it
\* stops before "%{"
ExpandPercentAlwaysContent(lx1, d, brace_depth, has_content) ==
    IF eof(lx1) THEN [ret |-> TRUE, lx |-> mark_end(lx1)]
    ELSE IF d \in {"%", "#", "*"}
    THEN ExpandLoop(mark_end(advance(lx1)), brace_depth, TRUE)
    ELSE IF d = "{"
    THEN [ret |-> TRUE, lx |-> lx1]
    ELSE IF isdigit(d)
    THEN ExpandLoop(mark_end(SkipDigits(lx1)), brace_depth, TRUE)
    ELSE ExpandLoop(mark_end(lx1), brace_depth, TRUE)

\* case '%': lx1 is the lexer past the '%', the boundary marked before it
ExpandPercent(lx1, d, brace_depth, has_content) ==
    IF eof(lx1) THEN [ret |-> TRUE, lx |-> mark_end(lx1)]
    ELSE IF d \in {"%", "#", "*"}
    THEN ExpandLoop(mark_end(advance(lx1)), brace_depth, TRUE)
    ELSE IF d = "{"
    THEN [ret |-> has_content, lx |-> lx1]
    ELSE IF isdigit(d)
    THEN ExpandLoop(mark_end(SkipDigits(lx1)), brace_depth, TRUE)
    ELSE ExpandLoop(mark_end(lx1), brace_depth, TRUE)

\* Faulty variant of ExpandChar: the span ended at any '}', whatever the depth
ExpandCharFlat(lx, c, brace_depth, has_content) ==
    IF c = "%"
    THEN ExpandPercent(advance(mark_end(lx)),
                       lookahead(advance(mark_end(lx))),
                       brace_depth, has_content)
    ELSE IF c = "{"
    THEN ExpandLoop(mark_end(advance(lx)), brace_depth + 1, TRUE)
    ELSE IF c = "}"
    THEN [ret |-> has_content, lx |-> lx]
    ELSE ExpandLoop(mark_end(advance(lx)), brace_depth, TRUE)

ExpandChar(lx, c, brace_depth, has_content) ==
    IF c = "%"
    THEN ExpandPercent(advance(mark_end(lx)),
                       lookahead(advance(mark_end(lx))),
                       brace_depth, has_content)
    ELSE IF c = "{"
    THEN ExpandLoop(mark_end(advance(lx)), brace_depth + 1, TRUE)
    ELSE IF c = "}"
    THEN IF brace_depth = 0
         THEN [ret |-> has_content, lx |-> lx]
         ELSE ExpandLoop(mark_end(advance(lx)), brace_depth - 1, TRUE)
    ELSE ExpandLoop(mark_end(advance(lx)), brace_depth, TRUE)

ExpandLoop(lx, brace_depth, has_content) ==
    IF eof(lx) THEN [ret |-> has_content, lx |-> lx]
    ELSE ExpandChar(lx, lookahead(lx), brace_depth, has_content)

scan_expand_content(lx) == ExpandLoop(lx, 0, FALSE)

RECURSIVE ShellLoop(_, _, _)
\* Faulty variant of ShellPercent: the span ended only before '%' plus an
\* identifier-start character
ShellPercentIdentifierOnly(lx1, paren_depth, has_content) ==
    IF eof(lx1) THEN [ret |-> TRUE, lx |-> mark_end(lx1)]
    ELSE IF is_identifier_start(lookahead(lx1))
    THEN [ret |-> has_content, lx |-> lx1]
    ELSE ShellLoop(mark_end(lx1), paren_depth, TRUE)

\* case '%': lx1 is the lexer past the '%', the boundary marked before it
ShellPercent(lx1, paren_depth, has_content) ==
    IF eof(lx1) THEN [ret |-> TRUE, lx |-> mark_end(lx1)]
    ELSE IF is_macro_start(lookahead(lx1))
    THEN [ret |-> has_content, lx |-> lx1]
    ELSE ShellLoop(mark_end(lx1), paren_depth, TRUE)

ShellChar(lx, c, paren_depth, has_content) ==
    IF c = "%"
    THEN ShellPercent(advance(mark_end(lx)), paren_depth, has_content)
    ELSE IF c = "("
    THEN ShellLoop(mark_end(advance(lx)), paren_depth + 1, TRUE)
    ELSE IF c = ")"
    THEN IF paren_depth = 0
         THEN [ret |-> has_content, lx |-> lx]
         ELSE ShellLoop(mark_end(advance(lx)), paren_depth - 1, TRUE)
    ELSE ShellLoop(mark_end(advance(lx)), paren_depth, TRUE)

ShellLoop(lx, paren_depth, has_content) ==
    IF eof(lx) THEN [ret |-> has_content, lx |-> lx]
    ELSE ShellChar(lx, lookahead(lx), paren_depth, has_content)

scan_shell_content(lx) == ShellLoop(lx, 0, FALSE)

(***************************************************************************)
(* Macro matcher                                                           *)
(***************************************************************************)
is_nil(id, len) == strequal("nil", id, len)

\* id[i] of the C code is the character at index i + 1 of id; the buffer's
\* terminating NUL, at index Len(id) + 1, is not a digit
is_patch_legacy(id, len) ==
    /\ ~(len < 6)
    /\ strncmp_eq(id, "patch", 5)
    /\ \A i \in 6..len : i <= Len(id) /\ isdigit(SubSeq(id, i, i))

Emit(lx, sym) ==
    [ret |-> TRUE, lx |-> [mark_end(lx) EXCEPT !.result_symbol = sym]]

Decline(lx) == [ret |-> FALSE, lx |-> lx]

\* The checks on the buffered identifier; lx1 is the lexer past the whole
\* identifier
MacroIdentifierChecks(lx1, valid, id_buf, id_len) ==
    IF is_keyword(id_buf, id_len) THEN Decline(lx1)
    ELSE IF is_patch_legacy(id_buf, id_len) THEN Decline(lx1)
    ELSE IF is_nil(id_buf, id_len)
    THEN IF "SPECIAL_MACRO" \in valid
         THEN Emit(lx1, "SPECIAL_MACRO")
         ELSE Decline(lx1)
    ELSE Emit(lx1, "SIMPLE_MACRO")

\* Faulty variant of MacroIdentifierBuffered: the identifier consumed and
\* measured only as far as the buffer holds it
MacroIdentifierTruncated(lx, valid, id_len) ==
    MacroIdentifierChecks(
        [lx EXCEPT !.pos = lx.pos + Min(id_len, ID_BUF_SIZE - 1)], valid,
        SubSeq(text, lx.pos, lx.pos + Min(id_len, ID_BUF_SIZE - 1) - 1),
        Min(id_len, ID_BUF_SIZE - 1))

\* The two consuming loops: id_len counts every identifier character, the
\* buffer keeps the first sizeof(id_buf) - 1 of them
MacroIdentifierBuffered(lx, valid, id_len) ==
    MacroIdentifierChecks([lx EXCEPT !.pos = lx.pos + id_len], valid,
                          SubSeq(text, lx.pos,
                                 lx.pos + Min(id_len, ID_BUF_SIZE - 1) - 1),
                          id_len)

\* The identifier branch of scan_macro (the default case, is_identifier_start)
ScanMacroIdentifier(lx, valid) ==
    IF "SIMPLE_MACRO" \notin valid THEN Decline(lx)
    ELSE MacroIdentifierBuffered(lx, valid, IdentRun(lx.pos))

\* Faulty variant of ScanMacroNegated: whatever follows the '!' accepted
ScanMacroNegatedAny(lx1) == Emit(SkipIdentifier(lx1), "NEGATED_MACRO")

\* case '!': lx1 is the lexer past the '!'
ScanMacroNegated(lx1) ==
    IF lookahead(lx1) = "?" THEN Decline(lx1)
    ELSE IF ~is_identifier_start(lookahead(lx1)) THEN Decline(lx1)
    ELSE Emit(SkipIdentifier(lx1), "NEGATED_MACRO")

\* Faulty variant of ScanMacroStar: a second '*' not taken
ScanMacroStarSingle(lx1) == Emit(lx1, "SPECIAL_MACRO")

\* case '*': lx1 is the lexer past the '*'
ScanMacroStar(lx1) ==
    Emit(IF lookahead(lx1) = "*" THEN advance(lx1) ELSE lx1, "SPECIAL_MACRO")

\* The switch on c, with the boundary marked at the token start
ScanMacroSwitch(lx, c, valid) ==
    IF c = "%"
    THEN IF "ESCAPED_PERCENT" \in valid
         THEN Emit(advance(lx), "ESCAPED_PERCENT")
         ELSE Decline(lx)
    ELSE IF c = "!"
    THEN IF "NEGATED_MACRO" \notin valid THEN Decline(lx)
         ELSE ScanMacroNegated(advance(lx))
    ELSE IF c = "*"
    THEN IF "SPECIAL_MACRO" \notin valid THEN Decline(lx)
         ELSE ScanMacroStar(advance(lx))
    ELSE IF c = "#"
    THEN IF "SPECIAL_MACRO" \notin valid THEN Decline(lx)
         ELSE Emit(advance(lx), "SPECIAL_MACRO")
    ELSE IF isdigit(c)
    THEN IF "SPECIAL_MACRO" \notin valid THEN Decline(lx)
         ELSE Emit(SkipDigits(lx), "SPECIAL_MACRO")
    ELSE IF is_identifier_start(c)
    THEN ScanMacroIdentifier(lx, valid)
    ELSE Decline(lx)

scan_macro(lx, valid) == ScanMacroSwitch(mark_end(lx), lookahead(lx), valid)

(***************************************************************************)
(* Conditional classifier.  The operators that may run the lookahead       *)
(* return, besides their C result, the scanner and lexer as the call       *)
(* leaves them and la_runs, the number of times                            *)
(* conditional_body_has_section was called.                                *)
(***************************************************************************)
\* The miss path: r is what conditional_body_has_section returned
CacheFill(r) ==
    [result |-> r.result,
     scanner |-> [lookahead_cache_valid |-> TRUE,
                  lookahead_has_section |-> r.result],
     lx |-> r.lx, la_runs |-> 1]

conditional_body_has_section_cached(sc, lx) ==
    IF sc.lookahead_cache_valid
    THEN [result |-> sc.lookahead_has_section, scanner |-> sc, lx |-> lx,
          la_runs |-> 0]
    ELSE CacheFill(conditional_body_has_section(lx))

COND_KEYWORDS ==
    << [name |-> "if", top |-> "TOP_LEVEL_IF", subsection |-> "SUBSECTION_IF",
        scriptlet |-> "SCRIPTLET_IF", files |-> "FILES_IF"],
       [name |-> "ifarch", top |-> "TOP_LEVEL_IFARCH",
        subsection |-> "SUBSECTION_IFARCH",
        scriptlet |-> "SCRIPTLET_IFARCH", files |-> "FILES_IFARCH"],
       [name |-> "ifnarch", top |-> "TOP_LEVEL_IFNARCH",
        subsection |-> "SUBSECTION_IFNARCH",
        scriptlet |-> "SCRIPTLET_IFNARCH", files |-> "FILES_IFNARCH"],
       [name |-> "ifos", top |-> "TOP_LEVEL_IFOS",
        subsection |-> "SUBSECTION_IFOS",
        scriptlet |-> "SCRIPTLET_IFOS", files |-> "FILES_IFOS"],
       [name |-> "ifnos", top |-> "TOP_LEVEL_IFNOS",
        subsection |-> "SUBSECTION_IFNOS",
        scriptlet |-> "SCRIPTLET_IFNOS", files |-> "FILES_IFNOS"] >>

NUM_COND_KEYWORDS == Len(COND_KEYWORDS)

\* struct CondTokens for table row kw under the admissible set valid
CondTokens(kw, valid) ==
    [top |-> kw.top, subsection |-> kw.subsection,
     scriptlet |-> kw.scriptlet, files |-> kw.files,
     top_valid |-> kw.top \in valid,
     subsection_valid |-> kw.subsection \in valid,
     scriptlet_valid |-> kw.scriptlet \in valid,
     files_valid |-> kw.files \in valid]

Selected(tok, sc, lx, n) ==
    [tok |-> tok, scanner |-> sc, lx |-> lx, la_runs |-> n]

Invalidated(sc) == [sc EXCEPT !.lookahead_cache_valid = FALSE]

\* Faulty variant of SelectAmbiguous: the scriptlet kind preferred to the
\* subsection kind when no section keyword was found
SelectAmbiguousScriptletFirst(ctx, h) ==
    IF h.result
    THEN Selected(ctx.top, Invalidated(h.scanner), h.lx, h.la_runs)
    ELSE Selected(IF ctx.scriptlet_valid THEN ctx.scriptlet
                                         ELSE ctx.subsection,
                  Invalidated(h.scanner), h.lx, h.la_runs)

\* Faulty variant of SelectAmbiguous: the subsection kind chosen whenever no
\* section keyword was found, admissible or not
SelectAmbiguousSubsectionAlways(ctx, h) ==
    IF h.result
    THEN Selected(ctx.top, Invalidated(h.scanner), h.lx, h.la_runs)
    ELSE Selected(ctx.subsection, Invalidated(h.scanner), h.lx, h.la_runs)

\* Faulty variant of SelectAmbiguous: the cache left valid after use
SelectAmbiguousCacheKept(ctx, h) ==
    IF h.result
    THEN Selected(ctx.top, h.scanner, h.lx, h.la_runs)
    ELSE Selected(IF ctx.subsection_valid THEN ctx.subsection
                                          ELSE ctx.scriptlet,
                  h.scanner, h.lx, h.la_runs)

\* The ambiguous branch once has_section is known; h carries it together
\* with the scanner and lexer the cached lookup left
SelectAmbiguous(ctx, h) ==
    IF h.result
    THEN Selected(ctx.top, Invalidated(h.scanner), h.lx, h.la_runs)
    ELSE Selected(IF ctx.subsection_valid THEN ctx.subsection
                                          ELSE ctx.scriptlet,
                  Invalidated(h.scanner), h.lx, h.la_runs)

\* Faulty variant of select_conditional_token_type: the files kind tried
\* last instead of first
SelectFilesLast(sc, lx, ctx) ==
    IF ctx.subsection_valid /\ ~ctx.top_valid /\ ~ctx.scriptlet_valid
    THEN Selected(ctx.subsection, sc, lx, 0)
    ELSE IF ctx.scriptlet_valid /\ ~ctx.top_valid /\ ~ctx.subsection_valid
    THEN Selected(ctx.scriptlet, Invalidated(sc), lx, 0)
    ELSE IF ctx.top_valid /\ ~ctx.subsection_valid /\ ~ctx.scriptlet_valid
    THEN Selected(ctx.top, Invalidated(sc), lx, 0)
    ELSE IF ctx.top_valid /\ (ctx.subsection_valid \/ ctx.scriptlet_valid)
    THEN SelectAmbiguous(ctx, conditional_body_has_section_cached(sc, lx))
    ELSE Selected(ctx.files, sc, lx, 0)

\* Faulty variant of select_conditional_token_type: the top-level-only
\* context resolved by the lookahead like an ambiguous one
SelectExclusiveByLookahead(sc, lx, ctx) ==
    IF ctx.files_valid
    THEN Selected(ctx.files, sc, lx, 0)
    ELSE IF ctx.subsection_valid /\ ~ctx.top_valid /\ ~ctx.scriptlet_valid
    THEN Selected(ctx.subsection, sc, lx, 0)
    ELSE IF ctx.scriptlet_valid /\ ~ctx.top_valid /\ ~ctx.subsection_valid
    THEN Selected(ctx.scriptlet, Invalidated(sc), lx, 0)
    ELSE IF ctx.top_valid
    THEN SelectAmbiguous([ctx EXCEPT !.scriptlet = ctx.top],
                         conditional_body_has_section_cached(sc, lx))
    ELSE Selected(ctx.top, sc, lx, 0)

\* Faulty variant of select_conditional_token_type: the fallback tries the
\* scriptlet kind before the subsection kind
SelectFallbackScriptletFirst(sc, lx, ctx) ==
    IF ctx.files_valid
    THEN Selected(ctx.files, sc, lx, 0)
    ELSE IF ctx.subsection_valid /\ ~ctx.top_valid /\ ~ctx.scriptlet_valid
    THEN Selected(ctx.subsection, sc, lx, 0)
    ELSE IF ctx.scriptlet_valid /\ ~ctx.top_valid /\ ~ctx.subsection_valid
    THEN Selected(ctx.scriptlet, Invalidated(sc), lx, 0)
    ELSE IF ctx.top_valid /\ ~ctx.subsection_valid /\ ~ctx.scriptlet_valid
    THEN Selected(ctx.top, Invalidated(sc), lx, 0)
    ELSE IF ctx.top_valid /\ (ctx.subsection_valid \/ ctx.scriptlet_valid)
    THEN SelectAmbiguous(ctx, conditional_body_has_section_cached(sc, lx))
    ELSE IF ctx.scriptlet_valid THEN Selected(ctx.scriptlet, sc, lx, 0)
    ELSE IF ctx.subsection_valid THEN Selected(ctx.subsection, sc, lx, 0)
    ELSE Selected(ctx.top, sc, lx, 0)

select_conditional_token_type(sc, lx, ctx) ==
    IF ctx.files_valid
    THEN Selected(ctx.files, sc, lx, 0)
    ELSE IF ctx.subsection_valid /\ ~ctx.top_valid /\ ~ctx.scriptlet_valid
    THEN Selected(ctx.subsection, sc, lx, 0)
    ELSE IF ctx.scriptlet_valid /\ ~ctx.top_valid /\ ~ctx.subsection_valid
    THEN Selected(ctx.scriptlet, Invalidated(sc), lx, 0)
    ELSE IF ctx.top_valid /\ ~ctx.subsection_valid /\ ~ctx.scriptlet_valid
    THEN Selected(ctx.top, Invalidated(sc), lx, 0)
    ELSE IF ctx.top_valid /\ (ctx.subsection_valid \/ ctx.scriptlet_valid)
    THEN SelectAmbiguous(ctx, conditional_body_has_section_cached(sc, lx))
    ELSE IF ctx.subsection_valid THEN Selected(ctx.subsection, sc, lx, 0)
    ELSE IF ctx.scriptlet_valid THEN Selected(ctx.scriptlet, sc, lx, 0)
    ELSE Selected(ctx.top, sc, lx, 0)

CondRowValid(kw, valid) ==
    \/ kw.top \in valid
    \/ kw.subsection \in valid
    \/ kw.scriptlet \in valid
    \/ kw.files \in valid

any_conditional_valid(valid) ==
    \E i \in 1..NUM_COND_KEYWORDS : CondRowValid(COND_KEYWORDS[i], valid)

SectionKinds ==
    {"SECTION_PREP", "SECTION_GENERATE_BUILDREQUIRES", "SECTION_CONF",
     "SECTION_BUILD", "SECTION_INSTALL", "SECTION_CHECK", "SECTION_CLEAN"}

any_section_token_valid(valid) == \E k \in SectionKinds : k \in valid

in_scriptlet_context(valid) ==
    \/ "SCRIPTLET_IF" \in valid
    \/ "SCRIPTLET_IFARCH" \in valid
    \/ "SCRIPTLET_IFNARCH" \in valid
    \/ "SCRIPTLET_IFOS" \in valid
    \/ "SCRIPTLET_IFNOS" \in valid

SECTION_KEYWORDS_MAP ==
    << [name |-> "prep", token |-> "SECTION_PREP"],
       [name |-> "generate_buildrequires",
        token |-> "SECTION_GENERATE_BUILDREQUIRES"],
       [name |-> "conf", token |-> "SECTION_CONF"],
       [name |-> "build", token |-> "SECTION_BUILD"],
       [name |-> "install", token |-> "SECTION_INSTALL"],
       [name |-> "check", token |-> "SECTION_CHECK"],
       [name |-> "clean", token |-> "SECTION_CLEAN"] >>

\* Faulty variant of lookup_section_keyword: a row matches when its name is
\* a prefix of the identifier
LookupSectionByPrefix(id, len) ==
    {SECTION_KEYWORDS_MAP[i] : i \in
        {j \in 1..Len(SECTION_KEYWORDS_MAP) :
            /\ len >= Len(SECTION_KEYWORDS_MAP[j].name)
            /\ strncmp_eq(id, SECTION_KEYWORDS_MAP[j].name,
                          Len(SECTION_KEYWORDS_MAP[j].name))}}

\* the set of matching rows; empty stands for NULL, and the names being
\* distinct at most one row matches
lookup_section_keyword(id, len) ==
    {SECTION_KEYWORDS_MAP[i] : i \in
        {j \in 1..Len(SECTION_KEYWORDS_MAP) :
            strequal(SECTION_KEYWORDS_MAP[j].name, id, len)}}

is_cond_keyword(id, len) ==
    \E i \in 1..NUM_COND_KEYWORDS : strequal(COND_KEYWORDS[i].name, id, len)

Scanned(ret, lx, sc, n) ==
    [ret |-> ret, lx |-> lx, scanner |-> sc, la_runs |-> n]

\* Faulty variant of CondEmit: the boundary committed after the kind was
\* selected, that is after the lookahead moved the lexer
CondEmitMarkLate(sel) ==
    Scanned(TRUE, [mark_end(sel.lx) EXCEPT !.result_symbol = sel.tok],
            sel.scanner, sel.la_runs)

\* The tail of the loop body: the boundary is committed, the kind assigned
CondEmit(sel) ==
    Scanned(TRUE, [sel.lx EXCEPT !.result_symbol = sel.tok],
            sel.scanner, sel.la_runs)

\* The loop body for the row whose name matched
CondRow(sc, lx, ctx) ==
    IF /\ ~ctx.top_valid /\ ~ctx.subsection_valid
       /\ ~ctx.scriptlet_valid /\ ~ctx.files_valid
    THEN Scanned(FALSE, lx, sc, 0)
    ELSE CondEmit(select_conditional_token_type(sc, mark_end(lx), ctx))

\* the rows whose name matches, the loop stopping at the first of them
CondRows(keyword, keyword_len) ==
    {i \in 1..NUM_COND_KEYWORDS :
        strequal(COND_KEYWORDS[i].name, keyword, keyword_len)}

FirstRow(rows) == CHOOSE j \in rows : \A k \in rows : j <= k

try_scan_conditional(sc, lx, valid, keyword, keyword_len) ==
    IF CondRows(keyword, keyword_len) = {}
    THEN Scanned(FALSE, lx, sc, 0)
    ELSE CondRow(sc, lx,
                 CondTokens(COND_KEYWORDS[FirstRow(CondRows(keyword,
                                                            keyword_len))],
                            valid))

try_scan_parametric_macro(lx, allow_parametric, keyword, keyword_len) ==
    IF ~allow_parametric THEN Decline(lx)
    ELSE IF \/ is_keyword(keyword, keyword_len)
            \/ is_files_keyword(keyword, keyword_len)
            \/ is_patch_legacy(keyword, keyword_len)
            \/ is_nil(keyword, keyword_len)
    THEN Decline(lx)
    ELSE IF ~is_horizontal_space(lookahead(lx)) THEN Decline(lx)
    ELSE Emit(lx, "PARAMETRIC_MACRO_NAME")

\* The two reading loops: n identifier characters are consumed from lx1,
\* the first buf_size - 1 of them kept
ConsumeIdentifier(lx1, buf_size, n) ==
    [ok |-> n > 0,
     lx |-> [lx1 EXCEPT !.pos = lx1.pos + n],
     id_buf |-> SubSeq(text, lx1.pos, lx1.pos + Min(n, buf_size - 1) - 1),
     id_len |-> n]

\* lx1 is the lexer past the '%'
ConsumeAfterPercent(lx1, buf_size) ==
    IF ~is_identifier_start(lookahead(lx1))
    THEN [ok |-> FALSE, lx |-> lx1, id_buf |-> "", id_len |-> 0]
    ELSE ConsumeIdentifier(lx1, buf_size, IdentRun(lx1.pos))

consume_percent_and_identifier(lx, buf_size) ==
    IF lookahead(lx) # "%"
    THEN [ok |-> FALSE, lx |-> lx, id_buf |-> "", id_len |-> 0]
    ELSE ConsumeAfterPercent(advance(lx), buf_size)

RECURSIVE skip_leading_whitespace(_)
skip_leading_whitespace(lx) ==
    IF lookahead(lx) = " " \/ lookahead(lx) = "\t"
    THEN skip_leading_whitespace(advance_skip(lx))
    ELSE lx

(***************************************************************************)
(* rpmspec_scan                                                            *)
(***************************************************************************)
\* Step 0: the whitespace loop run when no content kind is admissible
RECURSIVE NewlineLoop(_, _)
\* Faulty variant of NewlineCR: the "\n" after the "\r" not taken
NewlineCRLone(lx1) == Emit(lx1, "NEWLINE")

\* "\r" with NEWLINE admissible; lx1 is the lexer past it
NewlineCR(lx1) ==
    Emit(IF lookahead(lx1) = "\n" THEN advance(lx1) ELSE lx1, "NEWLINE")

\* Faulty variant of NewlineChar: white space advanced over as part of the
\* token
NewlineCharKept(lx, c, valid) ==
    IF ~isspace(c) THEN Decline(lx)
    ELSE IF c = "\n" /\ "NEWLINE" \in valid
    THEN Emit(advance(lx), "NEWLINE")
    ELSE IF c = "\r" /\ "NEWLINE" \in valid
    THEN NewlineCR(advance(lx))
    ELSE NewlineLoop(advance(lx), valid)

NewlineChar(lx, c, valid) ==
    IF ~isspace(c) THEN Decline(lx)
    ELSE IF c = "\n" /\ "NEWLINE" \in valid
    THEN Emit(advance(lx), "NEWLINE")
    ELSE IF c = "\r" /\ "NEWLINE" \in valid
    THEN NewlineCR(advance(lx))
    ELSE NewlineLoop(advance_skip(lx), valid)

NewlineLoop(lx, valid) == NewlineChar(lx, lookahead(lx), valid)

\* the row lookup_section_keyword found, its kind admissible
SectionRow(kw, valid) == CHOOSE k \in kw : k.token \in valid

WithScanner(m, sc, n) == Scanned(m.ret, m.lx, sc, n)

\* Step 1 once the conditional attempt declined: section header, then
\* parametric macro name
SectionOrParametric(sc, lx, valid, keyword, keyword_len) ==
    IF /\ any_section_token_valid(valid)
       /\ ~is_identifier_char(lookahead(lx))
       /\ \E k \in lookup_section_keyword(keyword, keyword_len) :
              k.token \in valid
    THEN WithScanner(
             Emit(lx, SectionRow(lookup_section_keyword(keyword, keyword_len),
                                 valid).token),
             sc, 0)
    ELSE IF "PARAMETRIC_MACRO_NAME" \in valid
    THEN WithScanner(
             try_scan_parametric_macro(lx, ~in_scriptlet_context(valid),
                                       keyword, keyword_len),
             sc, 0)
    ELSE Scanned(FALSE, lx, sc, 0)

\* cond is the outcome of the conditional attempt
AfterConditional(cond, sc, lx, valid, keyword, keyword_len) ==
    IF cond.ret THEN cond
    ELSE SectionOrParametric(sc, lx, valid, keyword, keyword_len)

\* Step 1 after '%' and an identifier were consumed: conditional, then
\* section header, then parametric macro name
PercentIdentifier(sc, lx, valid, keyword, keyword_len) ==
    IF any_conditional_valid(valid) /\ is_cond_keyword(keyword, keyword_len)
    THEN AfterConditional(
             try_scan_conditional(sc, lx, valid, keyword, keyword_len),
             sc, lx, valid, keyword, keyword_len)
    ELSE SectionOrParametric(sc, lx, valid, keyword, keyword_len)

\* c is what consume_percent_and_identifier returned
PercentConsumed(sc, valid, c) ==
    IF ~c.ok THEN Scanned(FALSE, c.lx, sc, 0)
    ELSE PercentIdentifier(sc, c.lx, valid, c.id_buf, c.id_len)

\* lx1 is the lexer after skip_leading_whitespace
PercentAt(sc, lx1, valid) ==
    IF lookahead(lx1) # "%" THEN Scanned(FALSE, lx1, sc, 0)
    ELSE PercentConsumed(sc, valid,
             consume_percent_and_identifier(mark_end(lx1), ID_BUF_SIZE))

\* Step 1: percent-prefixed tokens
PercentDispatch(sc, lx, valid) ==
    IF ~(\/ any_conditional_valid(valid)
         \/ "PARAMETRIC_MACRO_NAME" \in valid
         \/ any_section_token_valid(valid))
    THEN Scanned(FALSE, lx, sc, 0)
    ELSE PercentAt(sc, skip_leading_whitespace(lx), valid)

MacroKinds ==
    {"SIMPLE_MACRO", "NEGATED_MACRO", "SPECIAL_MACRO", "ESCAPED_PERCENT"}

\* Step 3: r is the outcome of a content scanner, sym the kind it stands for
ContentResult(r, sym) ==
    IF r.ret THEN [ret |-> TRUE, lx |-> [r.lx EXCEPT !.result_symbol = sym]]
    ELSE Decline(r.lx)

\* SCRIPT_CODE, tried when EXPAND_CODE was not emitted
ShellContent(lx, valid) ==
    IF "SCRIPT_CODE" \in valid
    THEN ContentResult(scan_shell_content(lx), "SCRIPT_CODE")
    ELSE Decline(lx)

\* e is the outcome of the EXPAND_CODE attempt
AfterExpand(e, valid) == IF e.ret THEN e ELSE ShellContent(e.lx, valid)

\* Steps 2 and 3: macro tokens, then the content scanners
MacroOrContent(lx, valid) ==
    IF \E k \in MacroKinds : k \in valid
    THEN scan_macro(lx, valid)
    ELSE IF "EXPAND_CODE" \in valid
    THEN AfterExpand(ContentResult(scan_expand_content(lx), "EXPAND_CODE"),
                     valid)
    ELSE ShellContent(lx, valid)

\* Faulty variant of AfterPercent: the cache flags cleared when step 1 did
\* not match
AfterPercentCacheCleared(pd, valid) ==
    IF pd.ret THEN pd
    ELSE WithScanner(MacroOrContent(pd.lx, valid),
                     [lookahead_cache_valid |-> FALSE,
                      lookahead_has_section |-> FALSE], pd.la_runs)

\* pd is the outcome of step 1
AfterPercent(pd, valid) ==
    IF pd.ret THEN pd
    ELSE WithScanner(MacroOrContent(pd.lx, valid), pd.scanner, pd.la_runs)

\* nl is the outcome of step 0
AfterNewline(sc, nl, valid) ==
    IF nl.ret THEN Scanned(TRUE, nl.lx, sc, 0)
    ELSE AfterPercent(PercentDispatch(sc, nl.lx, valid), valid)

rpmspec_scan(sc, lx, valid) ==
    AfterNewline(sc,
                 IF "EXPAND_CODE" \notin valid /\ "SCRIPT_CODE" \notin valid
                 THEN NewlineLoop(lx, valid)
                 ELSE Decline(lx),
                 valid)

(***************************************************************************)
(* State (de)serialization                                                 *)
(***************************************************************************)
TREE_SITTER_SERIALIZATION_BUFFER_SIZE == 1024

\* Faulty variant of rpmspec_serialize: the two bytes written in the
\* opposite order
SerializeSwapped(sc) ==
    [length |-> 2,
     buffer |-> << IF sc.lookahead_has_section THEN 1 ELSE 0,
                   IF sc.lookahead_cache_valid THEN 1 ELSE 0 >>]

\* Faulty variant of rpmspec_deserialize: a payload of one byte accepted
DeserializeShortByOne(sc, buffer, length) ==
    IF length < 1
    THEN [lookahead_cache_valid |-> FALSE, lookahead_has_section |-> FALSE]
    ELSE [lookahead_cache_valid |-> buffer[1] # 0,
          lookahead_has_section |-> IF length < 2 THEN FALSE
                                    ELSE buffer[2] # 0]

\* returns the number of bytes written and the bytes
rpmspec_serialize(sc) ==
    IF 2 > TREE_SITTER_SERIALIZATION_BUFFER_SIZE
    THEN [length |-> 0, buffer |-> <<>>]
    ELSE [length |-> 2,
          buffer |-> << IF sc.lookahead_cache_valid THEN 1 ELSE 0,
                        IF sc.lookahead_has_section THEN 1 ELSE 0 >>]

rpmspec_deserialize(sc, buffer, length) ==
    IF length < 2
    THEN [lookahead_cache_valid |-> FALSE, lookahead_has_section |-> FALSE]
    ELSE [lookahead_cache_valid |-> buffer[1] # 0,
          lookahead_has_section |-> buffer[2] # 0]

(***************************************************************************)
(* Scanner state and the idle values of the observation variables         *)
(***************************************************************************)
\* tree_sitter_rpmspec_external_scanner_create: ts_calloc zeroes both flags
create ==
    [lookahead_cache_valid |-> FALSE, lookahead_has_section |-> FALSE]

NoCall == [op |-> "none"]

NoBuffer == <<>>

LAIdle == [done |-> TRUE, result |-> FALSE]

(***************************************************************************)
(* Input texts.  A text is a concatenation of fragments; Rep builds the    *)
(* long runs of line terminators that reach MAX_LOOKAHEAD_LINES.           *)
(***************************************************************************)
RECURSIVE Rep(_, _)
Rep(s, n) ==
    IF n = 0 THEN ""
    ELSE IF n % 2 = 0 THEN LET h == Rep(s, n \div 2) IN h \o h
    ELSE s \o Rep(s, n - 1)

RECURSIVE Cat(_, _)
Cat(frags, n) ==
    IF n = 0 THEN {""}
    ELSE LET shorter == Cat(frags, n - 1)
         IN  shorter \cup {t \o f : t \in shorter, f \in frags}

\* Largest number of fragments in a conditional body given to the lookahead
MaxLAFrags == 4

LAFrags ==
    {"\n%if", "\n%endif", "\n%files", "\n", " ", "x", "%files", "%endif"}

\* Bodies around the line cap: a prefix, a run of line terminators one
\* short of, at, or one past the cap, and a section keyword after it
LALongTexts ==
    {pre \o Rep(nl, n) \o suf :
        pre \in {"", "x", "\n%if"},
        nl  \in {"\n", "\r\n", "\r"},
        n   \in {MAX_LOOKAHEAD_LINES - 1, MAX_LOOKAHEAD_LINES},
        suf \in {"%files", "\n%prep"}}

\* Bodies with the other openers, section keywords and line terminators
LAExtraTexts ==
    {"\n" \o o \o "\n%endif" \o nl \o ws \o k \o "\n%endif" :
        o  \in {"%ifarch", "%ifnarch", "%ifos", "%ifnos", "%iffy", "%elif"},
        nl \in {"\n", "\r\n", "\r", " "},
        ws \in {"", "\t "},
        k  \in {"%package", "%prep", "%preun", "%files", "%filesx", "%%files",
                "%transfiletriggerpostun_transfiletriggerpostun"}}

LATexts == Cat(LAFrags, MaxLAFrags) \cup LALongTexts \cup LAExtraTexts

(***************************************************************************)
(* SpecLA: the section lookahead stepped one loop iteration at a time,     *)
(* started just past a conditional keyword whose boundary is committed;    *)
(* text is what follows the keyword.                                       *)
(***************************************************************************)
InitLA ==
    /\ text \in LATexts
    /\ cursor = 1
    /\ scanner = create
    /\ saved = NoBuffer
    /\ last = NoCall
    /\ la = LAStart(mark_end(NewLexer(1)))

LAStep ==
    /\ ~la.done
    /\ la' = LookaheadIter(la)
    /\ UNCHANGED <<text, cursor, scanner, saved, last>>

NextLA == LAStep

SpecLA == InitLA /\ [][NextLA]_vars

(***************************************************************************)
(* Documents and admissible sets for the scanner proper                    *)
(***************************************************************************)
\* Largest number of fragments in the body that follows the first keyword
MaxBody == 2

BodyFrags ==
    {"\n%files", "\n%endif", "\n%if", " x", " %prep", "\r\n%package"}

Leading == {"", " ", " \t"}

CondHeads == {"%if", "%ifarch", "%ifnarch", "%ifos", "%ifnos"}

OtherHeads == {"%iffy", "%endif", "%conf", "%configure", "%%", "x"}

Texts ==
    {l \o h \o b : l \in Leading, h \in CondHeads, b \in {"", " x\n%files"}}
    \cup {h \o b : h \in CondHeads, b \in Cat(BodyFrags, MaxBody - 1)}
    \cup {h \o b : h \in {"%if"}, b \in Cat(BodyFrags, MaxBody)}
    \cup {l \o h \o " x" : l \in {"", " ", "\n"}, h \in OtherHeads}

Variants == {"top", "subsection", "scriptlet", "files"}

\* the kinds of the given variants for the conditional keywords in names
CondKinds(names, vs) ==
    {COND_KEYWORDS[i][v] :
        i \in {j \in 1..NUM_COND_KEYWORDS : COND_KEYWORDS[j].name \in names},
        v \in vs}

CondNames == {COND_KEYWORDS[i].name : i \in 1..NUM_COND_KEYWORDS}

OtherKinds ==
    {{}, {"NEWLINE"}, MacroKinds,
     {"PARAMETRIC_MACRO_NAME"} \cup SectionKinds,
     {"EXPAND_CODE"}, {"SCRIPT_CODE", "NEWLINE"}}

ValidSets ==
    {CondKinds(CondNames, vs) \cup o :
        vs \in SUBSET Variants, o \in {{}, MacroKinds}}
    \cup {CondKinds(CondNames, vs) \cup o :
             vs \in {{}, {"top"}, {"top", "scriptlet"}}, o \in OtherKinds}
    \cup {CondKinds({"if"}, vs) :
             vs \in {{"top"}, {"top", "subsection"}, {"files"}}}

\* Serialized states an engine may hand to deserialize: any bytes, any length
Bytes == {0, 1, 2, 255}

Payloads ==
    {<<>>} \cup {<<a>> : a \in Bytes}
    \cup {<<a, b>> : a \in Bytes, b \in Bytes}
    \cup {<<a, b, 7>> : a \in {0, 1}, b \in {0, 1}}

(***************************************************************************)
(* Spec: one scanner instance driven by the engine.  The engine calls      *)
(* scan, serialize or deserialize when no call is pending (last = NoCall); *)
(* the call's outcome is held in last until the engine takes it.  Taking   *)
(* a match moves the cursor to the committed boundary, taking a decline    *)
(* leaves the cursor where the scan started.  EngineLex is the grammar's   *)
(* own lexer matching the '%' that precedes a macro token.                 *)
(***************************************************************************)
Init ==
    /\ text \in Texts
    /\ cursor = 1
    /\ scanner = create
    /\ saved = NoBuffer
    /\ last = NoCall
    /\ la = LAIdle

\* one call of the scan entry point with the admissible set valid; r is
\* what rpmspec_scan returned
ScanCall(valid, r) ==
    /\ scanner' = r.scanner
    /\ last' = [op |-> "scan", valid |-> valid, entry |-> scanner,
                ret |-> r.ret, result_symbol |-> r.lx.result_symbol,
                start |-> r.lx.start, end |-> TokenEnd(r.lx),
                marked |-> r.lx.marked, pos |-> r.lx.pos,
                la_runs |-> r.la_runs]

Scan ==
    /\ last = NoCall
    /\ \E valid \in ValidSets :
        ScanCall(valid, rpmspec_scan(scanner, NewLexer(cursor), valid))
    /\ UNCHANGED <<text, cursor, saved, la>>

\* r is what rpmspec_serialize returned
SerializeCall(r) ==
    last' = [op |-> "serialize", length |-> r.length, buffer |-> r.buffer]

Serialize ==
    /\ last = NoCall
    /\ SerializeCall(rpmspec_serialize(scanner))
    /\ UNCHANGED <<text, cursor, scanner, saved, la>>

\* the engine restores a state that serialize produced
Deserialize ==
    /\ last = NoCall
    /\ saved # NoBuffer
    /\ scanner' = rpmspec_deserialize(scanner, saved, Len(saved))
    /\ last' = [op |-> "deserialize", buffer |-> saved, entry |-> scanner]
    /\ UNCHANGED <<text, cursor, saved, la>>

\* deserialize called with an arbitrary payload
DeserializeAny ==
    /\ last = NoCall
    /\ \E buffer \in Payloads :
        /\ scanner' = rpmspec_deserialize(scanner, buffer, Len(buffer))
        /\ last' = [op |-> "deserialize", buffer |-> buffer,
                    entry |-> scanner]
    /\ UNCHANGED <<text, cursor, saved, la>>

\* the engine takes the outcome of the pending call
Take ==
    /\ last # NoCall
    /\ cursor' = IF last.op = "scan" /\ last.ret THEN last.end ELSE cursor
    /\ saved' = IF last.op = "serialize" THEN last.buffer ELSE saved
    /\ last' = NoCall
    /\ UNCHANGED <<text, scanner, la>>

EngineLex ==
    /\ last = NoCall
    /\ cursor <= Len(text)
    /\ SubSeq(text, cursor, cursor) = "%"
    /\ cursor' = cursor + 1
    /\ UNCHANGED <<text, scanner, saved, last, la>>

Next == Scan \/ Serialize \/ Deserialize \/ Take \/ EngineLex

Spec == Init /\ [][Next]_vars

(***************************************************************************)
(* SpecAny: the same scanner when the engine may hand deserialize any      *)
(* payload, so that a scan can be entered with any cache state.            *)
(***************************************************************************)
NextAny == Scan \/ DeserializeAny \/ Take \/ EngineLex

SpecAny == Init /\ [][NextAny]_vars

(***************************************************************************)
(* SpecSer: the whole API, with any payload, on two short documents        *)
(***************************************************************************)
SerTexts == {"%if\n%files\n%endif", "%ifarch x\n%endif"}

InitSer ==
    /\ text \in SerTexts
    /\ cursor = 1
    /\ scanner = create
    /\ saved = NoBuffer
    /\ last = NoCall
    /\ la = LAIdle

NextSer == Scan \/ Serialize \/ Deserialize \/ DeserializeAny \/ Take \/ EngineLex

SpecSer == InitSer /\ [][NextSer]_vars

(***************************************************************************)
(* SpecMacro: the scanner on documents made of one macro after a '%'.  The *)
(* grammar's lexer takes the '%' (EngineLex) and the scanner is asked for  *)
(* the macro kinds, alone or together with other kinds.                    *)
(***************************************************************************)
ReservedWords ==
    KEYWORDS \cup SUBSECTION_KEYWORDS \cup SCRIPTLET_KEYWORDS \cup {"files"}

\* identifiers around the reserved words, nil and the legacy patch pattern
ShortIdentifiers ==
    ReservedWords
    \cup {w \o "x" : w \in {"define", "files", "prep", "nil", "patch1"}}
    \cup {"nil", "ni", "NIL", "_nil", "foo", "_", "a1", "patch0", "patch1",
          "patch0123", "patchx1", "patch_1", "Patch1", "patches"}

\* identifiers one short of, at, and past the size of the matcher's buffer
LongIdentifiers ==
    {pre \o Rep(c, n - Len(pre)) :
        pre \in {"patch", "define", "nil", "a"},
        c \in {"7", "x"},
        n \in {ID_BUF_SIZE - 2, ID_BUF_SIZE - 1, ID_BUF_SIZE,
               ID_BUF_SIZE + 1}}

MacroBodies ==
    {id \o t : id \in ShortIdentifiers \cup LongIdentifiers,
               t \in {"", " x"}}
    \cup {"!foo", "!foo bar", "!_a1-", "!?x", "!", "! x", "!1", "!!x", "!%",
          "!define", "!nil"}
    \cup {"%", "%%", "%x", "*", "**", "***", "*x", "#", "##", "#1",
          "0", "7", "12", "12a", "007 x"}
    \cup {"", " ", "{x}", "(x)", "?x", "-x", "\nfoo", " foo"}

MacroTexts == {"%" \o b : b \in MacroBodies}

\* every non-empty set of macro kinds, alone and with kinds of the other
\* families
MacroValidSets ==
    {m \cup o : m \in (SUBSET MacroKinds) \ {{}},
                o \in {{}, {"NEWLINE"}, {"EXPAND_CODE"}, {"SCRIPT_CODE"},
                       {"PARAMETRIC_MACRO_NAME"} \cup SectionKinds}}

InitMacro ==
    /\ text \in MacroTexts
    /\ cursor = 1
    /\ scanner = create
    /\ saved = NoBuffer
    /\ last = NoCall
    /\ la = LAIdle

ScanMacro ==
    /\ last = NoCall
    /\ \E valid \in MacroValidSets :
        ScanCall(valid, rpmspec_scan(scanner, NewLexer(cursor), valid))
    /\ UNCHANGED <<text, cursor, saved, la>>

NextMacro == ScanMacro \/ Take \/ EngineLex

SpecMacro == InitMacro /\ [][NextMacro]_vars

(***************************************************************************)
(* SpecContent: the scanner inside an expand block or a shell block, asked *)
(* for the content kinds on bodies built from the characters the content   *)
(* scanners distinguish.                                                   *)
(***************************************************************************)
\* Largest number of fragments in a block body
MaxContent == 4

ContentFrags == {"a", "{", "}", "(", ")", "%", "%1", "%#", "%."}

ContentExtraTexts ==
    {" a {b} c}", "a {b} c} d", "a %{b} c}", "{{a}}}", "a%%{b}", "a%*{b}}",
     "a%12{b}}", "a%_b}", "a%(b)}", "a%[b]}", "a%!b}", "a%?b}",
     "test $(echo hello) = hello && echo success)", "${var%.*})",
     "a%(b))", "a%[b])", "a%!b)", "a%?b)", "a%*)", "a%_b)", "a%Zb)",
     "a%9)", "a%%)", "a%-b)", "a% b)", "((a)))", "a%"}

ContentTexts == Cat(ContentFrags, MaxContent) \cup ContentExtraTexts

ContentValidSets ==
    {{"EXPAND_CODE"}, {"SCRIPT_CODE"}, {"EXPAND_CODE", "SCRIPT_CODE"}}

InitContent ==
    /\ text \in ContentTexts
    /\ cursor = 1
    /\ scanner = create
    /\ saved = NoBuffer
    /\ last = NoCall
    /\ la = LAIdle

ScanContent ==
    /\ last = NoCall
    /\ \E valid \in ContentValidSets :
        ScanCall(valid, rpmspec_scan(scanner, NewLexer(cursor), valid))
    /\ UNCHANGED <<text, cursor, saved, la>>

NextContent == ScanContent \/ Take \/ EngineLex

SpecContent == InitContent /\ [][NextContent]_vars

(***************************************************************************)
(* SpecLine: the scanner on lines that begin with white space and line     *)
(* terminators, under admissible sets that combine the newline kind, the   *)
(* content kinds, the macro kinds and the percent-prefixed kinds.          *)
(***************************************************************************)
LineBlanks == {"", " ", "\t\f "}

LineTerminators == {"", "\n", "\r\n", "\r", "\r\r\n"}

LineTails ==
    {"", "x", "foo", "%if x", "%ifarch\n%files", "%prep", "%configure x",
     "%foo x", "%foo", "%define", "%nil", "%%", "%", "%{x}", "%1", "%!x",
     "%*", "a}b", "a)b", " \nfoo"}

LineTexts ==
    {b \o t \o r : b \in LineBlanks, t \in LineTerminators, r \in LineTails}

LineValidSets ==
    {n \cup c \cup m \cup p :
        n \in {{}, {"NEWLINE"}},
        c \in {{}, {"EXPAND_CODE"}, {"SCRIPT_CODE"},
               {"EXPAND_CODE", "SCRIPT_CODE"}},
        m \in {{}, MacroKinds, {"SIMPLE_MACRO"},
               {"SPECIAL_MACRO", "ESCAPED_PERCENT"}},
        p \in {{}, {"PARAMETRIC_MACRO_NAME"}, SectionKinds,
               CondKinds(CondNames, {"top", "scriptlet"})
                   \cup SectionKinds \cup {"PARAMETRIC_MACRO_NAME"}}}
    \ {{}}

InitLine ==
    /\ text \in LineTexts
    /\ cursor = 1
    /\ scanner = create
    /\ saved = NoBuffer
    /\ last = NoCall
    /\ la = LAIdle

ScanLine ==
    /\ last = NoCall
    /\ \E valid \in LineValidSets :
        ScanCall(valid, rpmspec_scan(scanner, NewLexer(cursor), valid))
    /\ UNCHANGED <<text, cursor, saved, la>>

NextLine == ScanLine \/ Take \/ EngineLex

SpecLine == InitLine /\ [][NextLine]_vars

(***************************************************************************)
(* The companion scanner (rpmbash): a peek for a newline that precedes an  *)
(* RPM statement, in front of the wrapped bash scanner.  The bash scanner  *)
(* is not part of the sources; a call of it is an outcome d chosen freely: *)
(* whether it matches and how far it advances.                             *)
(***************************************************************************)
NAME_BUF_SIZE == 16

is_macro_name_char(c, first) ==
    IF first THEN c \in Lower \/ c \in Upper \/ c = "_"
    ELSE c \in Lower \/ c \in Upper \/ isdigit(c) \/ c = "_"

\* Faulty variant of is_simple_macro: a name of one character accepted
IsSimpleMacroAnyLength(name_len) == name_len >= 1

is_simple_macro(name_len) == name_len >= 2

\* while (lookahead is ' ', '\t' or '\n') advance
RECURSIVE SkipBlankLines(_)
SkipBlankLines(lx) ==
    IF lookahead(lx) \in {" ", "\t", "\n"} THEN SkipBlankLines(advance(lx))
    ELSE lx

\* the loop that reads the name into name_buf; returns name_len
RECURSIVE ReadName(_, _)
ReadName(lx, name_len) ==
    IF /\ is_macro_name_char(lookahead(lx), name_len = 0)
       /\ name_len < NAME_BUF_SIZE - 1
    THEN ReadName(advance(lx), name_len + 1)
    ELSE [lx |-> lx, name_len |-> name_len]

PeekResult(result, lx) == [result |-> result, lx |-> lx]

\* n is what the name loop returned
PeekName(n) ==
    IF is_simple_macro(n.name_len)
    THEN PeekResult("SCAN_MATCHED_KEYWORD",
                    [n.lx EXCEPT !.result_symbol = "NEWLINE"])
    ELSE PeekResult("SCAN_NO_KEYWORD", n.lx)

\* lx2 is the lexer past the newline and the blank lines after it
PeekPercent(lx2) ==
    IF lookahead(lx2) # "%" THEN PeekResult("SCAN_NO_KEYWORD", lx2)
    ELSE PeekName(ReadName(advance(lx2), 0))

\* Faulty variant of scan_newline_before_rpm_statement: the boundary
\* committed after the blank lines were skipped
PeekMarkLate(lx, valid) ==
    IF "NEWLINE" \notin valid \/ lookahead(lx) # "\n"
    THEN PeekResult("SCAN_NOT_AT_NEWLINE", lx)
    ELSE PeekPercent(mark_end(SkipBlankLines(advance(mark_end(lx)))))

\* Faulty variant of scan_newline_before_rpm_statement: the start marked
\* before the test of the admissible set and the lookahead
PeekMarkFirst(lx, valid) ==
    IF "NEWLINE" \notin valid \/ lookahead(lx) # "\n"
    THEN PeekResult("SCAN_NOT_AT_NEWLINE", mark_end(lx))
    ELSE PeekPercent(SkipBlankLines(mark_end(advance(mark_end(lx)))))

scan_newline_before_rpm_statement(lx, valid) ==
    IF "NEWLINE" \notin valid \/ lookahead(lx) # "\n"
    THEN PeekResult("SCAN_NOT_AT_NEWLINE", lx)
    ELSE PeekPercent(SkipBlankLines(mark_end(advance(mark_end(lx)))))

\* the wrapped bash scanner called with lexer lx, its outcome d
BashScan(lx, d) ==
    IF d.ret
    THEN Emit(IF d.adv = 1 THEN advance(lx) ELSE lx, d.sym)
    ELSE Decline(lx)

\* what a call of the companion's scan leaves: its result, the lexer, and
\* the lexer handed to the bash scanner if it was called
BashScanned(r, delegated, lx0) ==
    [ret |-> r.ret, lx |-> r.lx, delegated |-> delegated, delegate_lx |-> lx0]

\* pk is what the peek returned
RpmbashSwitch(pk, d) ==
    IF pk.result = "SCAN_MATCHED_KEYWORD"
    THEN BashScanned([ret |-> TRUE, lx |-> pk.lx], FALSE, pk.lx)
    ELSE IF pk.result = "SCAN_NO_KEYWORD"
    THEN BashScanned(Decline(pk.lx), FALSE, pk.lx)
    ELSE BashScanned(BashScan(pk.lx, d), TRUE, pk.lx)

rpmbash_scan(lx, valid, d) ==
    RpmbashSwitch(scan_newline_before_rpm_statement(lx, valid), d)

(***************************************************************************)
(* SpecBash: the companion scanner driven by the engine over shell text    *)
(* with RPM statements in it.                                              *)
(***************************************************************************)
BashHeads ==
    {"", "x", "%", "%%", "%s", "%s x", "%if", "%_x", "%a1", "%1a", "%{x}",
     "\r%if", "%configure_with_a_long_name x", "% if"}

BashGaps == {"", " ", "\t", "\n", " \n", "\n\t", "\n\n", "\r"}

BashTexts ==
    {pre \o "\n" \o g \o h : pre \in {"", "x", " "}, g \in BashGaps,
                             h \in BashHeads}
    \cup {"", "x", "%if", " %if"}

BashValidSets == {{}, {"NEWLINE"}, {"BASH_TOKEN"}, {"NEWLINE", "BASH_TOKEN"}}

\* what the wrapped bash scanner may do
BashOutcomes ==
    {[ret |-> r, adv |-> n, sym |-> k] :
        r \in BOOLEAN, n \in {0, 1}, k \in {"NEWLINE", "BASH_TOKEN"}}

InitBash ==
    /\ text \in BashTexts
    /\ cursor = 1
    /\ scanner = create
    /\ saved = NoBuffer
    /\ last = NoCall
    /\ la = LAIdle

\* one call of the companion's scan entry point; r is what it returned
BashScanCall(valid, d, r) ==
    last' = [op |-> "scan", valid |-> valid, ret |-> r.ret,
             result_symbol |-> r.lx.result_symbol,
             start |-> r.lx.start, end |-> TokenEnd(r.lx),
             marked |-> r.lx.marked, pos |-> r.lx.pos,
             delegated |-> r.delegated, delegate_lx |-> r.delegate_lx,
             outcome |-> d]

ScanBash ==
    /\ last = NoCall
    /\ \E valid \in BashValidSets, d \in BashOutcomes :
        BashScanCall(valid, d, rpmbash_scan(NewLexer(cursor), valid, d))
    /\ UNCHANGED <<text, cursor, scanner, saved, la>>

NextBash == ScanBash \/ Take

SpecBash == InitBash /\ [][NextBash]_vars

(***************************************************************************)
(* SpecFrame: scan under the admissible sets of SpecLine, serialize and    *)
(* deserialize of any payload, on a few documents that hold every kind of  *)
(* token.                                                                  *)
(***************************************************************************)
FrameTexts ==
    {"%prep\n%if x", "%configure x\n%%", " \n%ifarch\n%files", "%nil a}b",
     "%build"}

InitFrame ==
    /\ text \in FrameTexts
    /\ cursor = 1
    /\ scanner = create
    /\ saved = NoBuffer
    /\ last = NoCall
    /\ la = LAIdle

NextFrame == ScanLine \/ Serialize \/ DeserializeAny \/ Take \/ EngineLex

SpecFrame == InitFrame /\ [][NextFrame]_vars

(***************************************************************************)
(* SpecKw: the keyword membership tests applied to names: every word of    *)
(* the four tables, "files", and words that differ from them by a          *)
(* character.                                                              *)
(***************************************************************************)
KeywordNames ==
    {w \o x : w \in ReservedWords \cup FILES_KEYWORDS, x \in {"", "s", "_"}}
    \cup {SubSeq(w, 1, Len(w) - 1) : w \in ReservedWords \cup FILES_KEYWORDS}
    \cup {"", "x", "nil", "patch1", "Files", "IF"}

InitKw ==
    /\ text \in KeywordNames
    /\ cursor = 1
    /\ scanner = create
    /\ saved = NoBuffer
    /\ last = NoCall
    /\ la = LAIdle

\* the membership tests called with the name in text and its length
KeywordCall ==
    /\ last = NoCall
    /\ last' = [op |-> "keyword", str |-> text, len |-> Len(text),
                is_keyword |-> is_keyword(text, Len(text)),
                is_files_keyword |-> is_files_keyword(text, Len(text)),
                is_section_keyword |-> is_section_keyword(text, Len(text))]
    /\ UNCHANGED <<text, cursor, scanner, saved, la>>

NextKw == KeywordCall \/ Take

SpecKw == InitKw /\ [][NextKw]_vars

(***************************************************************************)
(* SpecLoops: the loops of one scan invocation stepped one iteration at a  *)
(* time.  la is the section lookahead as in SpecLA; last holds the locals  *)
(* of the whitespace loop of rpmspec_scan or of a content scanner (done:   *)
(* the loop was left, ret: what the function returned on leaving it).      *)
(***************************************************************************)
ExpandStart(lx) ==
    [op |-> "expand", lx |-> lx, brace_depth |-> 0, has_content |-> FALSE,
     done |-> FALSE, ret |-> FALSE]

\* case '%' of scan_expand_content: lx1 is the lexer past the '%', d the
\* character there
ExpandIterPercent(st, lx1, d) ==
    IF eof(lx1)
    THEN [st EXCEPT !.lx = mark_end(lx1), !.has_content = TRUE,
                    !.done = TRUE, !.ret = TRUE]
    ELSE IF d \in {"%", "#", "*"}
    THEN [st EXCEPT !.lx = mark_end(advance(lx1)), !.has_content = TRUE]
    ELSE IF d = "{"
    THEN [st EXCEPT !.lx = lx1, !.done = TRUE, !.ret = st.has_content]
    ELSE IF isdigit(d)
    THEN [st EXCEPT !.lx = mark_end(SkipDigits(lx1)), !.has_content = TRUE]
    ELSE [st EXCEPT !.lx = mark_end(lx1), !.has_content = TRUE]

ExpandIterChar(st, c) ==
    IF c = "%"
    THEN ExpandIterPercent(st, advance(mark_end(st.lx)),
                           lookahead(advance(mark_end(st.lx))))
    ELSE IF c = "{"
    THEN [st EXCEPT !.lx = mark_end(advance(st.lx)), !.has_content = TRUE,
                    !.brace_depth = st.brace_depth + 1]
    ELSE IF c = "}"
    THEN IF st.brace_depth = 0
         THEN [st EXCEPT !.done = TRUE, !.ret = st.has_content]
         ELSE [st EXCEPT !.lx = mark_end(advance(st.lx)),
                         !.has_content = TRUE,
                         !.brace_depth = st.brace_depth - 1]
    ELSE [st EXCEPT !.lx = mark_end(advance(st.lx)), !.has_content = TRUE]

\* one iteration of the while loop of scan_expand_content
ExpandIter(st) ==
    IF eof(st.lx) THEN [st EXCEPT !.done = TRUE, !.ret = st.has_content]
    ELSE ExpandIterChar(st, lookahead(st.lx))

ShellStart(lx) ==
    [op |-> "shell", lx |-> lx, paren_depth |-> 0, has_content |-> FALSE,
     done |-> FALSE, ret |-> FALSE]

\* case '%' of scan_shell_content: lx1 is the lexer past the '%'
ShellIterPercent(st, lx1) ==
    IF eof(lx1)
    THEN [st EXCEPT !.lx = mark_end(lx1), !.has_content = TRUE,
                    !.done = TRUE, !.ret = TRUE]
    ELSE IF is_macro_start(lookahead(lx1))
    THEN [st EXCEPT !.lx = lx1, !.done = TRUE, !.ret = st.has_content]
    ELSE [st EXCEPT !.lx = mark_end(lx1), !.has_content = TRUE]

ShellIterChar(st, c) ==
    IF c = "%"
    THEN ShellIterPercent(st, advance(mark_end(st.lx)))
    ELSE IF c = "("
    THEN [st EXCEPT !.lx = mark_end(advance(st.lx)), !.has_content = TRUE,
                    !.paren_depth = st.paren_depth + 1]
    ELSE IF c = ")"
    THEN IF st.paren_depth = 0
         THEN [st EXCEPT !.done = TRUE, !.ret = st.has_content]
         ELSE [st EXCEPT !.lx = mark_end(advance(st.lx)),
                         !.has_content = TRUE,
                         !.paren_depth = st.paren_depth - 1]
    ELSE [st EXCEPT !.lx = mark_end(advance(st.lx)), !.has_content = TRUE]

\* one iteration of the while loop of scan_shell_content
ShellIter(st) ==
    IF eof(st.lx) THEN [st EXCEPT !.done = TRUE, !.ret = st.has_content]
    ELSE ShellIterChar(st, lookahead(st.lx))

WhitespaceStart(lx, valid) ==
    [op |-> "whitespace", lx |-> lx, valid |-> valid,
     done |-> FALSE, ret |-> FALSE]

\* Faulty variant of WhitespaceIter: a line terminator that is not emitted
\* is not skipped either
WhitespaceIterStuck(st) ==
    IF ~isspace(lookahead(st.lx)) THEN [st EXCEPT !.done = TRUE]
    ELSE IF lookahead(st.lx) = "\n" /\ "NEWLINE" \in st.valid
    THEN [st EXCEPT !.lx = Emit(advance(st.lx), "NEWLINE").lx,
                    !.done = TRUE, !.ret = TRUE]
    ELSE IF lookahead(st.lx) = "\r" /\ "NEWLINE" \in st.valid
    THEN [st EXCEPT !.lx = NewlineCR(advance(st.lx)).lx,
                    !.done = TRUE, !.ret = TRUE]
    ELSE IF lookahead(st.lx) \in {"\n", "\r"} THEN st
    ELSE [st EXCEPT !.lx = advance_skip(st.lx)]

\* one iteration of the whitespace loop of rpmspec_scan (step 0); done with
\* ret false: the loop was left for step 1
WhitespaceIter(st) ==
    IF ~isspace(lookahead(st.lx)) THEN [st EXCEPT !.done = TRUE]
    ELSE IF lookahead(st.lx) = "\n" /\ "NEWLINE" \in st.valid
    THEN [st EXCEPT !.lx = Emit(advance(st.lx), "NEWLINE").lx,
                    !.done = TRUE, !.ret = TRUE]
    ELSE IF lookahead(st.lx) = "\r" /\ "NEWLINE" \in st.valid
    THEN [st EXCEPT !.lx = NewlineCR(advance(st.lx)).lx,
                    !.done = TRUE, !.ret = TRUE]
    ELSE [st EXCEPT !.lx = advance_skip(st.lx)]

LoopTexts ==
    {"", "a%", "a {b} c}", "a%%{b}", "a%12{b}}", "a%_b}", "{{a}}}",
     "${var%.*})", "((a)))", "a%(b))", "a%#)", "%", "%{", ")", "}",
     " \t\n\r\n x", "\r\r\n\f\n", "\n\n", "\r", "\n%if\n%endif\n%files",
     "%files", "x\r\n %prep", " \n%endif\n%files"}

LoopLongTexts ==
    {Rep("\n", MAX_LOOKAHEAD_LINES) \o "%files",
     "x" \o Rep("\r\n", MAX_LOOKAHEAD_LINES - 1) \o "\n%prep"}

LoopStarts ==
    {ExpandStart(NewLexer(1)), ShellStart(NewLexer(1))}
    \cup {WhitespaceStart(NewLexer(1), valid) : valid \in {{}, {"NEWLINE"}}}

InitLoops ==
    /\ text \in LoopTexts \cup LoopLongTexts
    /\ cursor = 1
    /\ scanner = create
    /\ saved = NoBuffer
    /\ \/ la = LAStart(mark_end(NewLexer(1))) /\ last = NoCall
       \/ la = LAIdle /\ text \in LoopTexts /\ last \in LoopStarts

ExpandStep ==
    /\ last.op = "expand"
    /\ ~last.done
    /\ last' = ExpandIter(last)
    /\ UNCHANGED <<text, cursor, scanner, saved, la>>

ShellStep ==
    /\ last.op = "shell"
    /\ ~last.done
    /\ last' = ShellIter(last)
    /\ UNCHANGED <<text, cursor, scanner, saved, la>>

WhitespaceStep ==
    /\ last.op = "whitespace"
    /\ ~last.done
    /\ last' = WhitespaceIter(last)
    /\ UNCHANGED <<text, cursor, scanner, saved, la>>

NextLoops == LAStep \/ ExpandStep \/ ShellStep \/ WhitespaceStep

\* a loop that can take an iteration takes it
SpecLoops == InitLoops /\ [][NextLoops]_vars /\ WF_vars(NextLoops)

(***************************************************************************)
(* SpecPercent: the scanner on a '%' and an identifier, under admissible   *)
(* sets that hold some or all of the section kinds, the parametric kind,   *)
(* conditional kinds of the top-level or scriptlet context, and macro or   *)
(* newline kinds.                                                          *)
(***************************************************************************)
PercentNames ==
    {"prep", "generate_buildrequires", "conf", "build", "install", "check",
     "clean", "configure", "generate_buildrequire", "Prep", "prep_", "pre",
     "files", "attr", "if", "ifos", "endif", "package", "define", "patch",
     "patch1", "patch12", "patchx", "nil", "nile", "foo", "_x1"}
    \cup {pre \o Rep(c, n - Len(pre)) :
             pre \in {"patch", "conf"}, c \in {"7"},
             n \in {ID_BUF_SIZE - 1, ID_BUF_SIZE, ID_BUF_SIZE + 1}}

PercentTexts ==
    {l \o "%" \o n \o t :
        l \in {"", " \t", "\n"}, n \in PercentNames,
        t \in {"", " x", "\tx", "\n", "-x", "%"}}
    \cup {"%%prep", "prep x", "% prep", "%1 x", "%"}

PercentValidSets ==
    {s \cup p \cup c \cup o :
        s \in {{}, {"SECTION_PREP"}, {"SECTION_CONF"},
               {"SECTION_CONF", "SECTION_BUILD"}, SectionKinds},
        p \in {{}, {"PARAMETRIC_MACRO_NAME"}},
        c \in {{}, CondKinds(CondNames, {"top"}),
               CondKinds(CondNames, {"scriptlet"}), {"SCRIPTLET_IFOS"}},
        o \in {{}, {"NEWLINE"}, {"SIMPLE_MACRO", "SPECIAL_MACRO"}}} \ {{}}

InitPercent ==
    /\ text \in PercentTexts
    /\ cursor = 1
    /\ scanner = create
    /\ saved = NoBuffer
    /\ last = NoCall
    /\ la = LAIdle

ScanPercent ==
    /\ last = NoCall
    /\ \E valid \in PercentValidSets :
        ScanCall(valid, rpmspec_scan(scanner, NewLexer(cursor), valid))
    /\ UNCHANGED <<text, cursor, saved, la>>

NextPercent == ScanPercent \/ Take \/ EngineLex

SpecPercent == InitPercent /\ [][NextPercent]_vars

(***************************************************************************)
(* SpecBuf: the accesses to the identifier buffers.  A buffer is a char    *)
(* array indexed from 0; after the buffering loops it holds the buffered   *)
(* characters and a NUL after them.  For each site that buffers an         *)
(* identifier the indices the loops write, the index of the NUL and the    *)
(* indices the keyword tests read are computed from the identifier in the  *)
(* text.  The read sets are those of every table row and of every test,    *)
(* without the short circuits.                                             *)
(***************************************************************************)
\* id[j] of the C code; "" stands for the NUL
CharOf(id, j) == IF j < Len(id) THEN SubSeq(id, j + 1, j + 1) ELSE ""

\* the indices of a that strncmp(a, b, n) reads: it stops after a
\* difference or a NUL
StrncmpReads(a, b, n) ==
    {i \in 0..(n - 1) :
        \A j \in 0..(i - 1) : CharOf(a, j) = CharOf(b, j) /\ CharOf(a, j) # ""}

StrequalReads(literal, id, len) ==
    IF len = Len(literal) THEN StrncmpReads(id, literal, Len(literal)) ELSE {}

MatchesKeywordArrayReads(str, len, keywords) ==
    UNION {IF len = Len(kw) THEN StrncmpReads(str, kw, len) ELSE {} :
              kw \in keywords}

IsKeywordReads(str, len) ==
    MatchesKeywordArrayReads(str, len, KEYWORDS)
    \cup MatchesKeywordArrayReads(str, len, SUBSECTION_KEYWORDS)
    \cup MatchesKeywordArrayReads(str, len, SCRIPTLET_KEYWORDS)
    \cup StrequalReads("files", str, len)

\* the digit loop reads id[i] as long as every earlier character was a digit
IsPatchLegacyReads(id, len) ==
    IF len < 6 THEN {}
    ELSE IF ~strncmp_eq(id, "patch", 5) THEN StrncmpReads(id, "patch", 5)
    ELSE StrncmpReads(id, "patch", 5)
         \cup {i \in 5..(len - 1) :
                  \A j \in 5..(i - 1) : isdigit(CharOf(id, j))}

IsNilReads(id, len) == StrequalReads("nil", id, len)

\* the indices the loop  while (... && id_len < buf_size - 1) id_buf[id_len++]
\* writes for an identifier of n characters
BufferingWrites(n, buf_size) == 0..(Min(n, buf_size - 1) - 1)

\* Faulty variant of CountedTerminator: the NUL stored at id_len unchecked
CountedTerminatorUnchecked(id_len, buf_size) == id_len

\* id_buf[id_len < sizeof(id_buf) ? id_len : sizeof(id_buf) - 1] = '\0',
\* id_len counting every character of the identifier
CountedTerminator(id_len, buf_size) ==
    IF id_len < buf_size THEN id_len ELSE buf_size - 1

\* the accesses of scan_macro and of consume_percent_and_identifier for an
\* identifier of id_len characters that starts at position p
CountedBuffer(site, p, id_len) ==
    [op |-> "buffer", site |-> site, id_len |-> id_len,
     buf_size |-> ID_BUF_SIZE,
     writes |-> BufferingWrites(id_len, ID_BUF_SIZE),
     terminator |-> CountedTerminator(id_len, ID_BUF_SIZE),
     id_buf |-> SubSeq(text, p, p + Min(id_len, ID_BUF_SIZE - 1) - 1),
     reads |-> IsKeywordReads(
                   SubSeq(text, p, p + Min(id_len, ID_BUF_SIZE - 1) - 1),
                   id_len)
               \cup IsPatchLegacyReads(
                   SubSeq(text, p, p + Min(id_len, ID_BUF_SIZE - 1) - 1),
                   id_len)
               \cup IsNilReads(
                   SubSeq(text, p, p + Min(id_len, ID_BUF_SIZE - 1) - 1),
                   id_len)]

\* the accesses of the section lookahead and of the companion scanner, whose
\* single loop stops at buf_size - 1 characters: id_len is the number kept
\* and id_buf[id_len] = '\0'
CappedBuffer(site, p, id_len, buf_size) ==
    [op |-> "buffer", site |-> site, id_len |-> id_len,
     buf_size |-> buf_size,
     writes |-> BufferingWrites(id_len, buf_size),
     terminator |-> id_len,
     id_buf |-> SubSeq(text, p, p + id_len - 1),
     reads |-> {}]

\* "patch", "nil", a section name and a plain letter, filled up to lengths
\* around the three buffer sizes
BufLengths ==
    {NAME_BUF_SIZE - 2, NAME_BUF_SIZE - 1, NAME_BUF_SIZE, NAME_BUF_SIZE + 1,
     LA_BUF_SIZE - 2, LA_BUF_SIZE - 1, LA_BUF_SIZE, LA_BUF_SIZE + 1,
     ID_BUF_SIZE - 2, ID_BUF_SIZE - 1, ID_BUF_SIZE, ID_BUF_SIZE + 1,
     ID_BUF_SIZE + 2}

BufNames ==
    {pre \o Rep(c, n - Len(pre)) :
        pre \in {"patch", "nil", "prep", "a"}, c \in {"7", "x"},
        n \in BufLengths}
    \cup KEYWORDS \cup SUBSECTION_KEYWORDS \cup SCRIPTLET_KEYWORDS
    \cup FILES_KEYWORDS
    \cup {"files", "nil", "patch", "patch1", "patch0123", "patchx", "a", "_"}

InitBuf ==
    /\ text \in {"%" \o n \o t : n \in BufNames, t \in {"", " x"}}
    /\ cursor = 1
    /\ scanner = create
    /\ saved = NoBuffer
    /\ last = NoCall
    /\ la = LAIdle

\* the identifier branch of scan_macro, the grammar having taken the '%'
MacroBuffer ==
    /\ last = NoCall
    /\ last' = CountedBuffer("scan_macro", 2, IdentRun(2))
    /\ UNCHANGED <<text, cursor, scanner, saved, la>>

\* consume_percent_and_identifier called at the '%'
PercentBuffer ==
    /\ last = NoCall
    /\ last' = CountedBuffer("consume_percent_and_identifier", 2,
                   consume_percent_and_identifier(NewLexer(1),
                                                  ID_BUF_SIZE).id_len)
    /\ UNCHANGED <<text, cursor, scanner, saved, la>>

\* the section lookahead at a line-start '%'
LookaheadBuffer ==
    /\ last = NoCall
    /\ last' = CappedBuffer("conditional_body_has_section", 2,
                            Min(IdentRun(2), LA_BUF_SIZE - 1), LA_BUF_SIZE)
    /\ UNCHANGED <<text, cursor, scanner, saved, la>>

\* the companion scanner's peek past the '%'
CompanionBuffer ==
    /\ last = NoCall
    /\ last' = CappedBuffer("scan_newline_before_rpm_statement", 2,
                            ReadName(NewLexer(2), 0).name_len, NAME_BUF_SIZE)
    /\ UNCHANGED <<text, cursor, scanner, saved, la>>

NextBuf ==
    MacroBuffer \/ PercentBuffer \/ LookaheadBuffer \/ CompanionBuffer

SpecBuf == InitBuf /\ [][NextBuf]_vars

(***************************************************************************)
(* Properties.  They are stated over the outcome of the pending call held  *)
(* in last and over the lookahead state la, with the text read directly    *)
(* rather than through the scanner's own operators where that is possible. *)
(***************************************************************************)
Blank == {" ", "\t"}

LineTerminator == {"\n", "\r"}

CharAt(p) == IF p >= 1 /\ p <= Len(text) THEN SubSeq(text, p, p) ELSE ""

\* the first position at or after p that holds no space or tab
RECURSIVE AfterBlanks(_)
AfterBlanks(p) == IF CharAt(p) \in Blank THEN AfterBlanks(p + 1) ELSE p

\* the maximal identifier after the '%' found at the cursor position p past
\* optional spaces and tabs; empty when there is no such '%'
HeadAt(p) ==
    IF CharAt(AfterBlanks(p)) = "%"
    THEN SubSeq(text, AfterBlanks(p) + 1,
                AfterBlanks(p) + IdentRun(AfterBlanks(p) + 1))
    ELSE ""

\* the position immediately after the '%' and the identifier
HeadEnd(p) == AfterBlanks(p) + 1 + Len(HeadAt(p))

\* the rows of the conditional keyword table named by the text at p
HeadRows(p) ==
    {i \in 1..NUM_COND_KEYWORDS : COND_KEYWORDS[i].name = HeadAt(p)}

NonFilesVariants == {"top", "subsection", "scriptlet"}

\* the non-files variants of row i that are admissible in valid
AdmissibleVariants(i, valid) ==
    {v \in NonFilesVariants : COND_KEYWORDS[i][v] \in valid}

AllCondKinds == CondKinds(CondNames, Variants)

ScannerStates ==
    [lookahead_cache_valid : BOOLEAN, lookahead_has_section : BOOLEAN]

\* what the section lookahead reports for the text from position p on
BodyHasSection(p) == conditional_body_has_section(NewLexer(p)).result

\* C1: files priority.  When the cursor is at optional blanks, '%' and a
\* conditional keyword whose files kind is admissible, scan emits that files
\* kind whatever else is admissible and whatever the cache held, the
\* lookahead is not run and the lexer stops right after the keyword.
C1_FilesPriority ==
    \A i \in HeadRows(cursor) :
        (last.op = "scan" /\ COND_KEYWORDS[i].files \in last.valid)
        => /\ last.ret
           /\ last.result_symbol = COND_KEYWORDS[i].files
           /\ last.la_runs = 0
           /\ last.pos = HeadEnd(cursor)
           /\ last.end = HeadEnd(cursor)

C1_Witness ==
    /\ last.op = "scan"
    /\ text = "%ifnarch\n%files"
    /\ cursor = 1
    /\ CondKinds({"ifnarch"}, Variants) \subseteq last.valid
    /\ last.entry.lookahead_cache_valid
    /\ ~last.entry.lookahead_has_section
    /\ last.result_symbol = "FILES_IFNARCH"

\* C2: exclusive context.  When the files kind of the keyword at the cursor
\* is not admissible and exactly one of its top-level, subsection and
\* scriptlet kinds is, scan emits that kind, the lookahead is not run and the
\* lexer is not advanced past the end of the keyword.
C2_ExclusiveContext ==
    \A i \in HeadRows(cursor) : \A v \in NonFilesVariants :
        (/\ last.op = "scan"
         /\ COND_KEYWORDS[i].files \notin last.valid
         /\ AdmissibleVariants(i, last.valid) = {v})
        => /\ last.ret
           /\ last.result_symbol = COND_KEYWORDS[i][v]
           /\ last.la_runs = 0
           /\ last.pos = HeadEnd(cursor)

C2_Witness ==
    /\ last.op = "scan"
    /\ text = "%ifos\n%files"
    /\ cursor = 1
    /\ AdmissibleVariants(4, last.valid) = {"top"}
    /\ "FILES_IFOS" \notin last.valid
    /\ last.entry.lookahead_cache_valid
    /\ last.result_symbol = "TOP_LEVEL_IFOS"
    /\ last.pos = Len("%ifos") + 1

\* C3: ambiguous context.  In the states reached from create() by scan,
\* serialize and deserialize of serialized buffers, when the files kind is
\* not admissible, the top-level kind is and so is the subsection or the
\* scriptlet kind, scan emits the top-level kind exactly when the lookahead
\* over the text after the keyword reports a section keyword, and otherwise
\* the subsection kind if admissible, else the scriptlet kind.
C3_AmbiguousContext ==
    \A i \in HeadRows(cursor) :
        (/\ last.op = "scan"
         /\ COND_KEYWORDS[i].files \notin last.valid
         /\ "top" \in AdmissibleVariants(i, last.valid)
         /\ AdmissibleVariants(i, last.valid) # {"top"})
        => /\ last.ret
           /\ last.result_symbol =
                 IF BodyHasSection(HeadEnd(cursor))
                 THEN COND_KEYWORDS[i].top
                 ELSE IF "subsection" \in AdmissibleVariants(i, last.valid)
                 THEN COND_KEYWORDS[i].subsection
                 ELSE COND_KEYWORDS[i].scriptlet

C3_Witness ==
    /\ last.op = "scan"
    /\ text = "%if\n%endif\n%files"
    /\ cursor = 1
    /\ AdmissibleVariants(1, last.valid) = NonFilesVariants
    /\ "FILES_IF" \notin last.valid
    /\ last.result_symbol = "SUBSECTION_IF"
    /\ last.la_runs = 1

\* C4: single-use cache.  Whatever the cache flags held on entry,
\* lookahead_cache_valid is false when scan returns from a call in which the
\* classifier made an ambiguous decision or chose the only admissible one of
\* the top-level, subsection and scriptlet kinds.
C4_SingleUseCache ==
    \A i \in HeadRows(cursor) :
        (/\ last.op = "scan"
         /\ COND_KEYWORDS[i].files \notin last.valid
         /\ AdmissibleVariants(i, last.valid) # {}
         /\ \/ Cardinality(AdmissibleVariants(i, last.valid)) = 1
            \/ "top" \in AdmissibleVariants(i, last.valid))
        => ~scanner.lookahead_cache_valid

\* C5: boundary of a conditional token.  Whenever scan emits a conditional
\* kind the committed boundary is the position right after the '%' and the
\* keyword that start the token, however far the lookahead moved the lexer;
\* the lookahead leaves the mark where it was, and its boolean does not
\* depend on the state of the lexer it is started with.
C5_ConditionalBoundary ==
    (last.op = "scan" /\ last.ret /\ last.result_symbol \in AllCondKinds)
    => /\ CharAt(last.start) = "%"
       /\ last.marked
       /\ last.end = last.start + 1 + IdentRun(last.start + 1)
       /\ last.pos >= last.end
       /\ conditional_body_has_section(mark_end(NewLexer(last.end))).lx.mark
             = last.end
       /\ BodyHasSection(last.end)
             = conditional_body_has_section(
                   mark_end(NewLexer(last.end))).result

C5_Witness ==
    /\ last.op = "scan"
    /\ text = " \t%ifarch x\n%files"
    /\ last.result_symbol = "TOP_LEVEL_IFARCH"
    /\ last.la_runs = 1
    /\ last.start = 3
    /\ last.end = 10
    /\ last.pos = Len(text) + 1

\* the identifier the lookahead buffers at a '%' it takes for a line start
LADirective(st) ==
    IF /\ ~st.done
       /\ ~eof(st.lx)
       /\ st.lines_scanned < MAX_LOOKAHEAD_LINES
       /\ st.at_line_start
       /\ lookahead(st.lx) = "%"
    THEN SubSeq(text, st.lx.pos + 1,
                st.lx.pos + Min(IdentRun(st.lx.pos + 1), LA_BUF_SIZE - 1))
    ELSE ""

C6_Step ==
    /\ LADirective(la) \in CondNames
       => la'.nesting = la.nesting + 1 /\ ~la'.done
    /\ LADirective(la) = "endif"
       => /\ la'.nesting = la.nesting - 1
          /\ la'.done <=> la'.nesting = 0
          /\ ~la'.result
    /\ LADirective(la) \notin CondNames \cup {"endif"}
       => la'.nesting = la.nesting
    /\ (la'.done /\ ~la'.result)
       => \/ la'.nesting = 0
          \/ eof(la.lx)
          \/ la.lines_scanned >= MAX_LOOKAHEAD_LINES

\* C6: lookahead nesting.  The counter starts at 1, each line-start opener
\* adds one and each line-start %endif takes one off; a %endif ends the scan
\* exactly when the counter reaches 0, and the scan ends with false only
\* there, at the end of input or at the line cap.  With an inner conditional
\* closed, a section keyword before the outer %endif gives true and one
\* after the outer %endif gives false.
C6_LookaheadNesting ==
    /\ la.nesting = 1
    /\ [][C6_Step]_vars
    /\ [](la.done /\ text = "\n%if\n%endif\n%files\n%endif" => la.result)
    /\ [](la.done /\ text = "\n%if\n%endif\n%endif\n%files" => ~la.result)
    /\ [](la.nesting >= 1 \/ (la.done /\ ~la.result /\ la.nesting = 0))

C6_Witness ==
    /\ text = "\n%if\n%endif\n%files\n%endif"
    /\ la.done
    /\ la.result
    /\ la.nesting = 1
    /\ la.lx.pos = Len("\n%if\n%endif\n%files") + 1

\* position q is at the start of a line of the body: a line terminator
\* precedes it with only spaces and tabs in between
AtStartOfLine(q) ==
    \E k \in 1..(q - 1) :
        /\ CharAt(k) \in LineTerminator
        /\ \A j \in (k + 1)..(q - 1) : CharAt(j) \in Blank

\* C7: line-start requirement.  The lookahead, started just past the
\* conditional keyword, ends with true only on a '%' and section keyword
\* that stand at the start of a line, preceded on that line by nothing but
\* spaces and tabs since the last line terminator.
C7_LineStartOnly ==
    [][(la'.done /\ la'.result) => AtStartOfLine(la.lx.pos)]_vars

\* C8: lookahead cap.  Once MAX_LOOKAHEAD_LINES line terminators have been
\* scanned, or at the end of input, the lookahead stops with false; a
\* section keyword right after the 2000th terminator is missed, one after
\* the 1999th is still found.
C8_LookaheadCap ==
    /\ [][(eof(la.lx) \/ la.lines_scanned >= MAX_LOOKAHEAD_LINES)
          => (la'.done /\ ~la'.result)]_vars
    /\ [](la.lines_scanned <= MAX_LOOKAHEAD_LINES)
    /\ [](la.done /\ la.lines_scanned = MAX_LOOKAHEAD_LINES => ~la.result)
    /\ [](\A nl \in {"\n", "\r\n", "\r"} :
             /\ la.done /\ text = Rep(nl, MAX_LOOKAHEAD_LINES) \o "%files"
                => ~la.result
             /\ la.done /\ text = Rep(nl, MAX_LOOKAHEAD_LINES - 1) \o "%files"
                => la.result)

C8_Witness ==
    /\ text = Rep("\r\n", MAX_LOOKAHEAD_LINES) \o "%files"
    /\ la.done
    /\ ~la.result
    /\ la.lines_scanned = MAX_LOOKAHEAD_LINES
    /\ la.nesting = 1
    /\ SubSeq(text, la.lx.pos, Len(text)) = "%files"

\* C9: serialization round trip.  For each of the four scanner states
\* serialize writes exactly 2 bytes, and deserialize of those bytes into any
\* scanner gives back that state.
C9_RoundTrip ==
    /\ last.op = "serialize"
       => /\ last.length = 2
          /\ Len(last.buffer) = 2
          /\ \A sc \in ScannerStates :
                rpmspec_deserialize(sc, last.buffer, last.length) = scanner
    /\ last.op = "deserialize"
       => \A s \in ScannerStates :
             last.buffer = rpmspec_serialize(s).buffer => scanner = s

C9_Witness ==
    /\ last.op = "deserialize"
    /\ last.buffer = saved
    /\ last.entry = create
    /\ scanner = [lookahead_cache_valid |-> TRUE,
                  lookahead_has_section |-> TRUE]

\* C10: short payload.  deserialize of a payload of length 0 or 1 leaves the
\* state (false, false) whatever it was and whatever the byte is; with 2 or
\* more bytes each flag is whether its byte is non-zero.
C10_ShortPayload ==
    last.op = "deserialize"
    => IF Len(last.buffer) < 2
       THEN scanner = create
       ELSE /\ scanner.lookahead_cache_valid = (last.buffer[1] # 0)
            /\ scanner.lookahead_has_section = (last.buffer[2] # 0)

C10_Witness ==
    /\ last.op = "deserialize"
    /\ last.buffer = <<255>>
    /\ last.entry = [lookahead_cache_valid |-> TRUE,
                     lookahead_has_section |-> TRUE]
    /\ scanner = create

\* the maximal identifier that starts at position p
IdentAt(p) == SubSeq(text, p, p + IdentRun(p) - 1)

IdentifierStart == Lower \cup Upper \cup {"_"}

Digit == {"0", "1", "2", "3", "4", "5", "6", "7", "8", "9"}

\* length of the maximal run of decimal digits that starts at position p
DigitRun(p) ==
    CHOOSE n \in 0..(Len(text) + 1) :
        /\ \A i \in p..(p + n - 1) : CharAt(i) \in Digit
        /\ CharAt(p + n) \notin Digit

\* the kinds that make scan try a percent-prefixed token before the macros
PercentPrefixedKinds ==
    AllCondKinds \cup SectionKinds \cup {"PARAMETRIC_MACRO_NAME"}

\* the pending call is a scan that ran the macro matcher with the lexer at
\* the cursor: a macro kind is admissible, no white space is skipped first
\* and no percent-prefixed token is tried at a '%'
MatcherAtCursor ==
    /\ last.op = "scan"
    /\ last.valid \cap MacroKinds # {}
    /\ CharAt(cursor) \notin {" ", "\t", "\n", "\r", "\f"}
    /\ CharAt(cursor) = "%" => last.valid \cap PercentPrefixedKinds = {}

NoMatch == ~last.ret /\ last.result_symbol = NoSymbol

\* the matcher emitted kind sym for the n characters at the cursor
Emitted(sym, n) ==
    /\ last.ret
    /\ last.result_symbol = sym
    /\ last.start = cursor
    /\ last.end = cursor + n

\* C11: reserved words are never simple macros.  For an identifier at the
\* matcher's cursor that is a reserved keyword, a subsection keyword, a
\* scriptlet-section keyword or "files", the matcher declines and emits no
\* kind, whatever is admissible.
C11_ReservedWords ==
    (/\ MatcherAtCursor
     /\ CharAt(cursor) \in IdentifierStart
     /\ IdentAt(cursor) \in ReservedWords)
    => NoMatch

C11_Witness ==
    /\ MatcherAtCursor
    /\ text = "%transfiletriggerpostun x"
    /\ cursor = 2
    /\ MacroKinds \subseteq last.valid
    /\ NoMatch
    /\ last.pos = Len("%transfiletriggerpostun") + 1

\* id is "patch" followed by one or more decimal digits
IsLegacyPatch(id) ==
    /\ Len(id) >= 6
    /\ SubSeq(id, 1, 5) = "patch"
    /\ \A i \in 6..Len(id) : SubSeq(id, i, i) \in Digit

\* C12: legacy patch pattern.  For an identifier "patch" plus one or more
\* digits, of any length, the matcher declines.
C12_LegacyPatch ==
    (/\ MatcherAtCursor
     /\ CharAt(cursor) \in IdentifierStart
     /\ IsLegacyPatch(IdentAt(cursor)))
    => NoMatch

\* C13: nil.  For the identifier "nil" at the matcher's cursor SIMPLE_MACRO
\* is never emitted, and when SPECIAL_MACRO is admissible SPECIAL_MACRO is
\* emitted for the three characters.
C13_Nil ==
    (/\ MatcherAtCursor
     /\ CharAt(cursor) \in IdentifierStart
     /\ IdentAt(cursor) = "nil")
    => /\ last.result_symbol # "SIMPLE_MACRO"
       /\ "SPECIAL_MACRO" \in last.valid
          => Emitted("SPECIAL_MACRO", Len("nil"))

\* C14: negated macro.  At a '!': with NEGATED_MACRO admissible and an
\* identifier-start character next, NEGATED_MACRO is emitted for '!' plus
\* the maximal identifier; with '?' or any other character next the matcher
\* declines; with NEGATED_MACRO not admissible it declines and the lexer
\* has not moved.
C14_NegatedMacro ==
    (MatcherAtCursor /\ CharAt(cursor) = "!")
    => IF "NEGATED_MACRO" \notin last.valid
       THEN NoMatch /\ last.pos = cursor
       ELSE IF CharAt(cursor + 1) \in IdentifierStart
       THEN Emitted("NEGATED_MACRO", 1 + IdentRun(cursor + 1))
       ELSE NoMatch

C14_Witness ==
    /\ MatcherAtCursor
    /\ text = "%!foo bar"
    /\ cursor = 2
    /\ last.result_symbol = "NEGATED_MACRO"
    /\ SubSeq(text, last.start, last.end - 1) = "!foo"

\* C15: special and escaped forms.  A '%' gives ESCAPED_PERCENT for that one
\* character if ESCAPED_PERCENT is admissible; '*' (both characters of
\* "**"), '#' and a maximal run of digits give SPECIAL_MACRO if
\* SPECIAL_MACRO is admissible; when the kind is not admissible the matcher
\* declines and the lexer has not moved.
C15_SpecialForms ==
    /\ (MatcherAtCursor /\ CharAt(cursor) = "%")
       => IF "ESCAPED_PERCENT" \in last.valid
          THEN Emitted("ESCAPED_PERCENT", 1)
          ELSE NoMatch /\ last.pos = cursor
    /\ (MatcherAtCursor /\ CharAt(cursor) \in {"*", "#"} \cup Digit)
       => IF "SPECIAL_MACRO" \notin last.valid
          THEN NoMatch /\ last.pos = cursor
          ELSE IF CharAt(cursor) = "*"
          THEN Emitted("SPECIAL_MACRO",
                       IF CharAt(cursor + 1) = "*" THEN 2 ELSE 1)
          ELSE IF CharAt(cursor) = "#"
          THEN Emitted("SPECIAL_MACRO", 1)
          ELSE Emitted("SPECIAL_MACRO", DigitRun(cursor))

C15_Witness ==
    /\ MatcherAtCursor
    /\ text = "%***"
    /\ cursor = 2
    /\ last.result_symbol = "SPECIAL_MACRO"
    /\ last.end = 4

\* C16: long identifiers.  An identifier longer than the characters the
\* matcher buffers is emitted as SIMPLE_MACRO over its whole length when
\* SIMPLE_MACRO is admissible; its buffered prefix never makes it a reserved
\* word or nil.
C16_LongIdentifiers ==
    (/\ MatcherAtCursor
     /\ CharAt(cursor) \in IdentifierStart
     /\ IdentRun(cursor) > ID_BUF_SIZE - 1
     /\ "SIMPLE_MACRO" \in last.valid)
    => Emitted("SIMPLE_MACRO", IdentRun(cursor))

C16_Witness ==
    /\ MatcherAtCursor
    /\ text = "%define" \o Rep("x", ID_BUF_SIZE + 1 - Len("define")) \o " x"
    /\ cursor = 2
    /\ last.result_symbol = "SIMPLE_MACRO"
    /\ last.end - last.start = ID_BUF_SIZE + 1

\* number of characters c at the positions p..(q - 1)
Count(p, q, c) == Cardinality({i \in p..(q - 1) : CharAt(i) = c})

\* nesting depth reached at position q by a scan of the positions p..(q - 1)
Depth(p, q, open, close) == Count(p, q, open) - Count(p, q, close)

\* the pending call is a scan that emitted kind sym from the cursor
ContentEmitted(sym) ==
    /\ last.op = "scan"
    /\ sym \in last.valid
    /\ last.ret
    /\ last.result_symbol = sym
    /\ last.start = cursor

\* C17: expand-block balance.  In an EXPAND_CODE span every '}' closes a
\* '{' of the span (the depth is never negative), the span stops only at
\* end of input, at a '%' or at a '}', and a '}' it stops at is the first
\* one met at depth 0 and is not consumed.
C17_ExpandBalance ==
    ContentEmitted("EXPAND_CODE")
    => /\ \A q \in cursor..last.end : Depth(cursor, q, "{", "}") >= 0
       /\ CharAt(last.end) \in {"", "%", "}"}
       /\ CharAt(last.end) = "}"
          => /\ Depth(cursor, last.end, "{", "}") = 0
             /\ last.pos = last.end

C17_Witness ==
    /\ ContentEmitted("EXPAND_CODE")
    /\ text = "a {b} c} d"
    /\ cursor = 1
    /\ SubSeq(text, last.start, last.end - 1) = "a {b} c"
    /\ last.pos = last.end

\* the characters after a '%' that could start a nested macro
NestedMacroStart == IdentifierStart \cup {"{", "(", "[", "!", "?"}

\* position i holds a '%' that begins a percent sequence of the span: it is
\* the first character scanned or the character before it is not a '%'
SequencePercent(i) ==
    /\ CharAt(i) = "%"
    /\ i = cursor \/ CharAt(i - 1) # "%"

\* C18: expand-block macro boundary.  An EXPAND_CODE span ends before the
\* first '%' whose next character could start a nested macro, so no '%'
\* that begins a percent sequence inside the span is followed by an
\* identifier-start character, '{', '(', '[', '!' or '?'.
C18_ExpandMacroBoundary ==
    ContentEmitted("EXPAND_CODE")
    => \A i \in cursor..(last.end - 1) :
          SequencePercent(i) => CharAt(i + 1) \notin NestedMacroStart

\* the characters after a '%' that introduce a macro
MacroIntroducer ==
    IdentifierStart \cup Digit \cup {"%", "{", "(", "[", "!", "?", "*", "#"}

\* C19: shell-block content.  In a SCRIPT_CODE span scanned from the cursor
\* no '%' is followed by a macro introducer; a '%' the span stops at is
\* followed by one; the span stops only at end of input, at such a '%' or
\* at a ')', every ')' of the span closes a '(' of the span, and a ')' it
\* stops at is the first one met at depth 0.
C19_ShellContent ==
    (ContentEmitted("SCRIPT_CODE") /\ "EXPAND_CODE" \notin last.valid)
    => /\ \A i \in cursor..(last.end - 1) :
             CharAt(i) = "%" => CharAt(i + 1) \notin MacroIntroducer
       /\ CharAt(last.end) = "%" => CharAt(last.end + 1) \in MacroIntroducer
       /\ CharAt(last.end) \in {"", "%", ")"}
       /\ \A q \in cursor..last.end : Depth(cursor, q, "(", ")") >= 0
       /\ CharAt(last.end) = ")" => Depth(cursor, last.end, "(", ")") = 0

C19_Witness ==
    /\ ContentEmitted("SCRIPT_CODE")
    /\ "EXPAND_CODE" \notin last.valid
    /\ text = "${var%.*})"
    /\ cursor = 1
    /\ SubSeq(text, last.start, last.end - 1) = "${var%.*}"

\* the pending call is a scan that went to the content scanners
ContentScan ==
    /\ last.op = "scan"
    /\ last.valid \cap MacroKinds = {}
    /\ last.valid \cap {"EXPAND_CODE", "SCRIPT_CODE"} # {}

\* the cursor is where an expand body is empty: end of input, the closing
\* '}' or a '%' that could start a nested macro
ExpandBodyEmpty ==
    \/ CharAt(cursor) \in {"", "}"}
    \/ CharAt(cursor) = "%" /\ CharAt(cursor + 1) \in NestedMacroStart

\* the cursor is where a shell body is empty: end of input, the closing ')'
\* or a '%' followed by a macro introducer
ShellBodyEmpty ==
    \/ CharAt(cursor) \in {"", ")"}
    \/ CharAt(cursor) = "%" /\ CharAt(cursor + 1) \in MacroIntroducer

\* C20: empty body.  A scan that goes to the content scanners returns true
\* if and only if the committed span holds at least one character, and it
\* emits neither EXPAND_CODE from a cursor where the expand body is empty
\* nor SCRIPT_CODE from a cursor where the shell body is empty.
C20_EmptyBody ==
    ContentScan
    => /\ last.ret <=> last.end > last.start
       /\ ("EXPAND_CODE" \in last.valid /\ ExpandBodyEmpty)
          => last.result_symbol # "EXPAND_CODE"
       /\ ("SCRIPT_CODE" \in last.valid /\ ShellBodyEmpty)
          => last.result_symbol # "SCRIPT_CODE"

\* white space that is not a line terminator
InlineSpace == {" ", "\t", "\f"}

\* the first position at or after p that holds no inline white space
AfterInlineSpace(p) ==
    CHOOSE q \in p..(Len(text) + 1) :
        /\ \A i \in p..(q - 1) : CharAt(i) \in InlineSpace
        /\ CharAt(q) \notin InlineSpace

\* length of the line terminator at position q: LF, CR LF or a lone CR
TerminatorLen(q) ==
    IF CharAt(q) = "\n" THEN 1
    ELSE IF CharAt(q) = "\r" THEN (IF CharAt(q + 1) = "\n" THEN 2 ELSE 1)
    ELSE 0

ContentKinds == {"EXPAND_CODE", "SCRIPT_CODE"}

\* C21: explicit terminator.  With NEWLINE admissible and no content kind
\* admissible, at inline white space followed by LF, CR LF or a lone CR the
\* scan emits NEWLINE for exactly that terminator, the white space skipped,
\* whatever else is admissible and without running the section lookahead.
C21_ExplicitTerminator ==
    (/\ last.op = "scan"
     /\ "NEWLINE" \in last.valid
     /\ last.valid \cap ContentKinds = {}
     /\ TerminatorLen(AfterInlineSpace(cursor)) > 0)
    => /\ last.ret
       /\ last.result_symbol = "NEWLINE"
       /\ last.start = AfterInlineSpace(cursor)
       /\ last.end = last.start + TerminatorLen(last.start)
       /\ last.pos = last.end
       /\ last.la_runs = 0

C21_Witness ==
    /\ last.op = "scan"
    /\ text = "\t\f \r\n%ifarch\n%files"
    /\ cursor = 1
    /\ CondKinds(CondNames, {"top", "scriptlet"}) \cup MacroKinds
          \cup {"NEWLINE"} \subseteq last.valid
    /\ last.result_symbol = "NEWLINE"
    /\ SubSeq(text, last.start, last.end - 1) = "\r\n"

\* the first position at or after p that holds no white space at all
AfterWhiteSpace(p) ==
    CHOOSE q \in p..(Len(text) + 1) :
        /\ \A i \in p..(q - 1) : CharAt(i) \in InlineSpace \cup LineTerminator
        /\ CharAt(q) \notin InlineSpace \cup LineTerminator

\* C22: insignificant newline.  With NEWLINE and both content kinds not
\* admissible, the scan skips all leading white space, line terminators
\* included: the token starts at the first character that is not white
\* space, and an emitted token is not empty.
C22_InsignificantNewline ==
    (/\ last.op = "scan"
     /\ "NEWLINE" \notin last.valid
     /\ last.valid \cap ContentKinds = {})
    => /\ last.start = AfterWhiteSpace(cursor)
       /\ last.ret => /\ last.result_symbol # "NEWLINE"
                      /\ last.end > last.start

C22_Witness ==
    /\ last.op = "scan"
    /\ "NEWLINE" \notin last.valid
    /\ text = "\t\f \r\r\n%prep"
    /\ cursor = 1
    /\ last.result_symbol = "SECTION_PREP"
    /\ SubSeq(text, last.start, last.end - 1) = "%prep"

\* the pending call is a scan of the companion scanner
BashCall == last.op = "scan" /\ "delegated" \in DOMAIN last

\* the first position at or after p that holds no space, tab or LF
AfterBlankLines(p) ==
    CHOOSE q \in p..(Len(text) + 1) :
        /\ \A i \in p..(q - 1) : CharAt(i) \in {" ", "\t", "\n"}
        /\ CharAt(q) \notin {" ", "\t", "\n"}

\* position q holds '%' and a name of at least two characters
DirectiveAt(q) ==
    /\ CharAt(q) = "%"
    /\ CharAt(q + 1) \in IdentifierStart
    /\ CharAt(q + 2) \in IdentifierStart \cup Digit

\* the companion's peek applies: NEWLINE admissible and the cursor at LF
PeekApplies ==
    BashCall /\ "NEWLINE" \in last.valid /\ CharAt(cursor) = "\n"

C23_Forced ==
    (PeekApplies /\ DirectiveAt(AfterBlankLines(cursor + 1)))
    => /\ last.ret
       /\ last.result_symbol = "NEWLINE"
       /\ last.start = cursor
       /\ last.end = cursor + 1
       /\ ~last.delegated

C23_Next ==
    (/\ PeekApplies
     /\ DirectiveAt(AfterBlankLines(cursor + 1))
     /\ last' = NoCall)
    => cursor' = cursor + 1

\* C23: forced terminator.  In the companion scanner, with NEWLINE
\* admissible and the cursor at LF, when '%' and a name of two or more
\* characters follow the LF and any spaces, tabs and LFs, the scan returns
\* NEWLINE for exactly the first LF without calling the bash scanner, and
\* the engine's next call starts one character after the cursor.
C23_ForcedTerminator == [](C23_Forced) /\ [][C23_Next]_vars

C23_Witness ==
    /\ PeekApplies
    /\ text = "x\n\n\t%if"
    /\ cursor = 2
    /\ last.result_symbol = "NEWLINE"
    /\ last.end = 3
    /\ last.pos = Len(text) + 1

\* C24: failed peek never delegates.  In the companion scanner, with
\* NEWLINE admissible and the cursor at LF, when what follows the LF and
\* any spaces, tabs and LFs is not '%' plus a name of two or more
\* characters, the scan declines and the bash scanner is not called.
C24_FailedPeek ==
    (PeekApplies /\ ~DirectiveAt(AfterBlankLines(cursor + 1)))
    => ~last.ret /\ ~last.delegated /\ last.result_symbol = NoSymbol

C24_Witness ==
    /\ PeekApplies
    /\ text = "x\n\n\t%s x"
    /\ cursor = 2
    /\ ~last.ret
    /\ ~last.delegated
    /\ last.pos = 7

\* C25: untouched delegation.  In the companion scanner, with NEWLINE not
\* admissible or the cursor not at LF, the bash scanner is called with the
\* lexer as the engine handed it over (not advanced, no boundary marked,
\* no result symbol) and the scan returns what the bash scanner returned.
C25_UntouchedDelegation ==
    (BashCall /\ ~PeekApplies)
    => /\ last.delegated
       /\ last.delegate_lx = NewLexer(cursor)
       /\ last.ret = BashScan(NewLexer(cursor), last.outcome).ret
       /\ last.ret = last.outcome.ret
       /\ last.result_symbol
             = BashScan(NewLexer(cursor), last.outcome).lx.result_symbol
       /\ last.end = TokenEnd(BashScan(NewLexer(cursor), last.outcome).lx)
       /\ ~last.ret => last.pos = cursor /\ ~last.marked

C25_Witness ==
    /\ BashCall
    /\ text = "x\n\n\t%if"
    /\ cursor = 2
    /\ last.valid = {"BASH_TOKEN"}
    /\ last.delegated
    /\ last.ret
    /\ last.result_symbol = "BASH_TOKEN"

\* C26: no decline after commit.  No scan, of the primary scanner or of
\* the companion, that has committed a token boundary (called mark_end)
\* returns no-match.
C26_NoDeclineAfterCommit ==
    (last.op = "scan" /\ last.marked) => last.ret

\* the token of the pending call is, from its first character on, what
\* the macro matcher recognises for kind sym
MacroTokenShape(sym) ==
    IF sym = "ESCAPED_PERCENT"
    THEN CharAt(last.start) = "%" /\ last.end = last.start + 1
    ELSE IF sym = "NEGATED_MACRO"
    THEN /\ CharAt(last.start) = "!"
         /\ CharAt(last.start + 1) \in IdentifierStart
         /\ last.end = last.start + 1 + IdentRun(last.start + 1)
    ELSE IF sym = "SIMPLE_MACRO"
    THEN /\ CharAt(last.start) \in IdentifierStart
         /\ last.end = last.start + IdentRun(last.start)
    ELSE \/ /\ CharAt(last.start) = "*"
            /\ last.end = last.start
                          + (IF CharAt(last.start + 1) = "*" THEN 2 ELSE 1)
         \/ CharAt(last.start) = "#" /\ last.end = last.start + 1
         \/ /\ CharAt(last.start) \in Digit
            /\ last.end = last.start + DigitRun(last.start)
         \/ /\ CharAt(last.start) \in IdentifierStart
            /\ IdentAt(last.start) = "nil"
            /\ last.end = last.start + Len("nil")

\* C27: macro token text.  Every SIMPLE_MACRO, NEGATED_MACRO, SPECIAL_MACRO
\* or ESCAPED_PERCENT token a scan emits is, from the position where the
\* token starts, exactly what the macro matcher recognises; it holds no
\* '%' or '%identifier' consumed by the percent-prefixed dispatch.
C27_MacroTokenText ==
    (/\ last.op = "scan"
     /\ last.ret
     /\ last.result_symbol \in MacroKinds)
    => MacroTokenShape(last.result_symbol)

\* the cursor is at a character that begins a non-empty body for the
\* content scanner whose closer is given: not white space, not '%', not
\* the closer and not end of input
BodyAtCursor(closer) ==
    CharAt(cursor) \notin {"", "%", closer} \cup InlineSpace \cup LineTerminator

\* C28: content capture as last resort.  When EXPAND_CODE is admissible, a
\* non-empty body is at the cursor and the scan emits no newline, no
\* percent-prefixed and no macro token, the scan emits EXPAND_CODE; the
\* same for SCRIPT_CODE when EXPAND_CODE is not admissible.
C28_ContentLastResort ==
    (/\ last.op = "scan"
     /\ "delegated" \notin DOMAIN last
     /\ last.ret => last.result_symbol \in ContentKinds)
    => /\ ("EXPAND_CODE" \in last.valid /\ BodyAtCursor("}"))
          => last.ret /\ last.result_symbol = "EXPAND_CODE"
       /\ (/\ "SCRIPT_CODE" \in last.valid
           /\ "EXPAND_CODE" \notin last.valid
           /\ BodyAtCursor(")"))
          => last.ret /\ last.result_symbol = "SCRIPT_CODE"

\* the four keyword tables share no word
TablesDisjoint ==
    /\ KEYWORDS \cap SUBSECTION_KEYWORDS = {}
    /\ KEYWORDS \cap SCRIPTLET_KEYWORDS = {}
    /\ KEYWORDS \cap FILES_KEYWORDS = {}
    /\ SUBSECTION_KEYWORDS \cap SCRIPTLET_KEYWORDS = {}
    /\ SUBSECTION_KEYWORDS \cap FILES_KEYWORDS = {}
    /\ SCRIPTLET_KEYWORDS \cap FILES_KEYWORDS = {}

\* C29: keyword sets, as the code has them.  The reserved, subsection,
\* scriptlet-section and files-directive tables are pairwise disjoint, and
\* is_keyword(name) is true exactly when name is in the reserved, the
\* subsection or the scriptlet-section table or is "files"; the files
\* directives are no keywords for is_keyword.
C29_KeywordSets ==
    /\ TablesDisjoint
    /\ last.op = "keyword"
       => /\ last.is_keyword
             <=> last.str \in KEYWORDS \cup SUBSECTION_KEYWORDS
                              \cup SCRIPTLET_KEYWORDS \cup {"files"}
          /\ last.is_files_keyword <=> last.str \in FILES_KEYWORDS
          /\ last.str \in FILES_KEYWORDS => ~last.is_keyword

C29_Witness ==
    /\ last.op = "keyword"
    /\ last.str = "attr"
    /\ last.is_files_keyword
    /\ ~last.is_keyword

\* C29 as stated: the tables are pairwise disjoint and is_keyword(name) is
\* true exactly when name is in the union of all four tables.
C29_KeywordUnionOfFour ==
    /\ TablesDisjoint
    /\ last.op = "keyword"
       => (last.is_keyword
           <=> last.str \in KEYWORDS \cup SUBSECTION_KEYWORDS
                            \cup SCRIPTLET_KEYWORDS \cup FILES_KEYWORDS)

\* a scan of the primary scanner that emitted no conditional kind
C30_Scan ==
    (/\ last.op = "scan"
     /\ "entry" \in DOMAIN last
     /\ last.result_symbol \notin AllCondKinds)
    => scanner = last.entry /\ last.la_runs = 0

C30_Serialize == last'.op = "serialize" => scanner' = scanner

\* C30: cache frame.  A scan that does not reach the classifier's
\* selection (it emits NEWLINE, a section header, a parametric-macro name,
\* a macro token or a content token, or it declines) leaves both cache
\* flags as they were on entry and runs no section lookahead, and serialize
\* leaves the flags unchanged.
C30_CacheFrame == [](C30_Scan) /\ [][C30_Serialize]_vars

C30_Witness ==
    /\ last.op = "scan"
    /\ last.result_symbol = "PARAMETRIC_MACRO_NAME"
    /\ last.entry = [lookahead_cache_valid |-> TRUE,
                     lookahead_has_section |-> TRUE]
    /\ scanner = last.entry

\* a call of the primary scan entry point
PrimaryScan == last.op = "scan" /\ "entry" \in DOMAIN last

\* C31: admissibility of the result.  Whenever the primary scan returns a
\* match, the kind it stored in result_symbol is a member of the admissible
\* set it was called with, whatever the input and the cache state on entry.
C31_AdmissibleResult ==
    (PrimaryScan /\ last.ret) => last.result_symbol \in last.valid

\* the ambiguous rule chose the scriptlet kind, which is admissible, from a
\* cache state that deserialize had set
C31_Witness ==
    /\ PrimaryScan
    /\ last.ret
    /\ last.entry.lookahead_cache_valid
    /\ last.result_symbol = "SCRIPTLET_IFARCH"
    /\ "SUBSECTION_IFARCH" \notin last.valid
    /\ "TOP_LEVEL_IFARCH" \in last.valid
    /\ last.result_symbol \in last.valid

\* the classifier's ambiguous rule applies to row i of the keyword table
AmbiguousFor(i, valid) ==
    /\ COND_KEYWORDS[i].files \notin valid
    /\ "top" \in AdmissibleVariants(i, valid)
    /\ AdmissibleVariants(i, valid) # {"top"}

LoopLeft == last = NoCall \/ last.done

\* an iteration moved the lexer on by at least one character or left the loop
C33_Step ==
    /\ la' # la => la'.done \/ la'.lx.pos > la.lx.pos
    /\ last' # last => last'.done \/ last'.lx.pos > last.lx.pos

\* what the loop held in last returned agrees with the scanner's function
C33_SameAsFunction ==
    /\ (last.op = "expand" /\ last.done)
       => [ret |-> last.ret, lx |-> last.lx] = scan_expand_content(NewLexer(1))
    /\ (last.op = "shell" /\ last.done)
       => [ret |-> last.ret, lx |-> last.lx] = scan_shell_content(NewLexer(1))
    /\ (last.op = "whitespace" /\ last.done)
       => [ret |-> last.ret, lx |-> last.lx]
             = NewlineLoop(NewLexer(1), last.valid)

\* C33: termination.  Each iteration of the whitespace loop, of the section
\* lookahead and of both content scanners advances the lexer by at least one
\* character or leaves the loop, every loop is left on every finite input,
\* and the lookahead never counts more than MAX_LOOKAHEAD_LINES line
\* terminators.
C33_Termination ==
    /\ [][C33_Step]_vars
    /\ <>(la.done /\ LoopLeft)
    /\ [](~la.done => la.lines_scanned <= MAX_LOOKAHEAD_LINES)
    /\ [](C33_SameAsFunction)

C33_Witness ==
    /\ text = "a%12{b}}"
    /\ last.op = "expand"
    /\ last.done
    /\ last.ret
    /\ last.lx.pos = 8
    /\ last.lx.mark = 8
    /\ last.brace_depth = 0

\* the name of each section-header kind
SectionNameOf ==
    [SECTION_PREP |-> "prep",
     SECTION_GENERATE_BUILDREQUIRES |-> "generate_buildrequires",
     SECTION_CONF |-> "conf", SECTION_BUILD |-> "build",
     SECTION_INSTALL |-> "install", SECTION_CHECK |-> "check",
     SECTION_CLEAN |-> "clean"]

\* the maximal identifier that follows the '%' at the token start
NameAfterStart == IdentAt(last.start + 1)

\* the token starts at a '%' that only white space separates from the
\* cursor, and ends right after the maximal identifier that follows it
PercentTokenSpan ==
    /\ \A i \in cursor..(last.start - 1) :
          CharAt(i) \in InlineSpace \cup LineTerminator
    /\ CharAt(last.start) = "%"
    /\ last.marked
    /\ last.end = last.start + 1 + Len(NameAfterStart)
    /\ ~is_identifier_char(CharAt(last.end))

\* C34: section header exact match.  A section-header kind is emitted only
\* when the maximal identifier after the '%' is exactly the name of that
\* section and the kind is admissible; the token spans the '%' and the
\* identifier.  In particular %configure never yields SECTION_CONF.
C34_SectionExactMatch ==
    (PrimaryScan /\ last.ret /\ last.result_symbol \in DOMAIN SectionNameOf)
    => /\ PercentTokenSpan
       /\ NameAfterStart = SectionNameOf[last.result_symbol]
       /\ last.result_symbol \in last.valid

\* %conf emitted in front of an argument, with the parametric kind
\* admissible as well
C34_Witness ==
    /\ PrimaryScan
    /\ text = " \t%conf x"
    /\ cursor = 1
    /\ last.ret
    /\ last.result_symbol = "SECTION_CONF"
    /\ "PARAMETRIC_MACRO_NAME" \in last.valid
    /\ SubSeq(text, last.start, last.end - 1) = "%conf"

\* every word of the four keyword tables, and "files"
AllKeywordWords ==
    KEYWORDS \cup SUBSECTION_KEYWORDS \cup SCRIPTLET_KEYWORDS
    \cup FILES_KEYWORDS \cup {"files"}

\* the conditions of a parametric macro name other than the one on legacy
\* patch identifiers
ParametricShape ==
    /\ "PARAMETRIC_MACRO_NAME" \in last.valid
    /\ last.valid \cap CondKinds(CondNames, {"scriptlet"}) = {}
    /\ PercentTokenSpan
    /\ NameAfterStart \notin AllKeywordWords
    /\ NameAfterStart # "nil"
    /\ CharAt(last.end) \in Blank

\* C35: parametric macro name.  PARAMETRIC_MACRO_NAME is emitted only if it
\* is admissible, no scriptlet conditional kind is admissible, the
\* identifier after the '%' is no keyword of the four tables, not "files",
\* not "patch" plus digits and not "nil", and a space or tab follows the
\* identifier; the token spans the '%' and the identifier.
C35_ParametricMacroName ==
    (PrimaryScan /\ last.ret /\ last.result_symbol = "PARAMETRIC_MACRO_NAME")
    => /\ ParametricShape
       /\ ~IsLegacyPatch(NameAfterStart)

\* the same with legacy patch identifiers that fit the 63 buffered characters
C35_ShortNames ==
    (PrimaryScan /\ last.ret /\ last.result_symbol = "PARAMETRIC_MACRO_NAME")
    => /\ ParametricShape
       /\ Len(NameAfterStart) < ID_BUF_SIZE => ~IsLegacyPatch(NameAfterStart)

\* what the classifier selects for row i when the kinds of the variants vs
\* are the admissible ones, from the current scanner state
SelectedFor(i, vs) ==
    select_conditional_token_type(
        scanner, NewLexer(cursor),
        CondTokens(COND_KEYWORDS[i], {COND_KEYWORDS[i][v] : v \in vs}))

\* C36: fallback order.  When the files and top-level kinds of the keyword
\* at the cursor are not admissible and both its subsection and scriptlet
\* kinds are, scan emits the subsection kind without running the lookahead;
\* the classifier's fallback returns the scriptlet kind only if the
\* subsection kind is not admissible and the top-level kind only if neither
\* is.
C36_FallbackOrder ==
    /\ \A i \in HeadRows(cursor) :
          (/\ PrimaryScan
           /\ COND_KEYWORDS[i].files \notin last.valid
           /\ AdmissibleVariants(i, last.valid) = {"subsection", "scriptlet"})
          => /\ last.ret
             /\ last.result_symbol = COND_KEYWORDS[i].subsection
             /\ last.la_runs = 0
             /\ last.end = HeadEnd(cursor)
             /\ scanner = last.entry
    /\ \A i \in 1..NUM_COND_KEYWORDS :
          /\ SelectedFor(i, {"subsection", "scriptlet"}).tok
                = COND_KEYWORDS[i].subsection
          /\ SelectedFor(i, {}).tok = COND_KEYWORDS[i].top
          /\ SelectedFor(i, {}).la_runs = 0

C36_Witness ==
    /\ PrimaryScan
    /\ text = "%ifarch x\n%endif"
    /\ cursor = 1
    /\ last.valid \cap CondKinds({"ifarch"}, Variants)
          = {"SUBSECTION_IFARCH", "SCRIPTLET_IFARCH"}
    /\ last.entry.lookahead_cache_valid
    /\ last.entry.lookahead_has_section
    /\ last.result_symbol = "SUBSECTION_IFARCH"
    /\ last.la_runs = 0

\* an emitted token holds at least one character after the skipped white
\* space
C37_NonEmpty ==
    (PrimaryScan /\ last.ret)
    => /\ last.start >= cursor
       /\ last.end > last.start
       /\ last.end <= Len(text) + 1

\* the engine taking a match moves the cursor forward
C37_Advance ==
    (PrimaryScan /\ last.ret /\ last' = NoCall) => cursor' > cursor

\* C37: non-empty tokens.  Every token the primary scan emits, of whatever
\* kind, has at least one character between the token start (after the
\* skipped white space) and the committed boundary, so every successful
\* scan the engine takes moves the cursor strictly forward.
C37_NonEmptyTokens == [](C37_NonEmpty) /\ [][C37_Advance]_vars

\* a line terminator emitted after a skipped blank
C37_Witness ==
    /\ PrimaryScan
    /\ last.ret
    /\ last.result_symbol = "NEWLINE"
    /\ last.start > cursor
    /\ last.end = last.start + 1

\* C38: buffer bounds.  For identifiers of any length the buffering loops
\* and the terminating NUL write only indices below the size of the buffer
\* (at most 63, 31 and 15), and is_keyword, is_patch_legacy and is_nil read
\* the 64-byte buffer only at indices that were written, so below its size;
\* the buffer then holds what the scanner's functions are given.
C38_BufferBounds ==
    last.op = "buffer"
    => /\ \A i \in last.writes \cup {last.terminator} : i < last.buf_size
       /\ \A i \in last.reads :
             i < ID_BUF_SIZE /\ i \in last.writes \cup {last.terminator}
       /\ last.terminator = Len(last.id_buf)
       /\ last.site = "consume_percent_and_identifier"
          => /\ last.id_buf
                   = consume_percent_and_identifier(NewLexer(1),
                                                    ID_BUF_SIZE).id_buf
             /\ last.id_len = IdentRun(2)
       /\ last.site = "conditional_body_has_section"
          => last.id_buf = LADirective(LAStart(NewLexer(1)))

\* "patch" and 59 digits: the digit loop reads up to the NUL at index 63
C38_Witness ==
    /\ last.op = "buffer"
    /\ last.site = "scan_macro"
    /\ last.id_len = ID_BUF_SIZE
    /\ last.terminator = ID_BUF_SIZE - 1
    /\ ID_BUF_SIZE - 1 \in last.reads
    /\ ID_BUF_SIZE - 2 \in last.writes

====
